---------------------------- MODULE Spec2Model ----------------------------
(***************************************************************************)
(* A model of the traffic-sim core: the ring-buffer lane queues, the       *)
(* per-road traffic lights, the adaptive phase controller and the          *)
(* intersection step loop (road.c, traffic_light.c, controller.c,          *)
(* intersection.c).                                                        *)
(***************************************************************************)
EXTENDS Integers, Sequences, FiniteSets, TLC

(***************************************************************************)
(* Bounds of the model.                                                    *)
(***************************************************************************)
\* Lane capacity; config.h sets 64, the model scales it down.
MAX_VEHICLES_PER_LANE == 2
\* Number of vehicles the caller may get accepted by the intersection.
MaxVehicles == 2
\* Number of intersection_step calls.
MaxSteps == 5
\* The same for the caller of test_spec_example.
MaxScenarioVehicles == 4
MaxScenarioSteps == 4
\* Number of successful queue_enqueue calls on the stand-alone queue.
MaxEnqueues == 5
\* Ids of the vehicles offered to the stand-alone queue.
MaxQueueId == 2
\* uint32_t arithmetic wraps at 2^32 in the code, beyond the integers of the
\* model checker; the model wraps it at UINT32, which no step count, wait or
\* score of the bounded model reaches.
UINT32 == 65536
\* The draining caller: vehicles it adds, and the step before which it adds them.
MaxDrainVehicles == 3
LastAddStep == 2
\* The busy caller: vehicles waiting at the same time, and steps.
MaxWaiting == 3
MaxBusySteps == 8
\* Number of stand-alone movement_type calls.
MaxClassify == 2
\* Number of traffic_light_tick calls on the stand-alone light after it
\* returned to RED.
MaxRedTicks == 2
\* The caller of the controller: vehicles it adds, and steps it lets pass.
MaxControllerVehicles == 3
MaxControllerSteps == 2
\* Vehicles accepted and steps taken by the caller that watches a phase run out.
MaxPhaseVehicles == 4
MaxPhaseSteps == 6
\* Vehicles accepted and steps taken by the caller that mixes known and unknown destinations.
MaxDestinationVehicles == 3
MaxDestinationSteps == 4
\* Ticks of the embedded loop.
MaxTicks == 5

(***************************************************************************)
(* config.h                                                                *)
(***************************************************************************)
LANES_PER_ROAD == 3
ROAD_COUNT == 4
PHASE_COUNT == 6
MAX_ROADS_PER_PHASE == 2
MIN_GREEN_STEPS == 2
MAX_GREEN_STEPS == 8
YELLOW_STEPS == 1
MAX_DEPARTURES_PER_STEP == MAX_ROADS_PER_PHASE * 2

\* uint8_t arithmetic wraps at 2^8.
UINT8 == 256

\* The lane capacity config.h sets, of which MAX_VEHICLES_PER_LANE is the
\* scaled-down value of the model.
CONFIG_MAX_VEHICLES_PER_LANE == 64

\* A uint8_t that counts vehicles wraps at 256 = 4 * 64, the content of four
\* full lanes.  The model keeps that ratio to its own lane capacity, so that
\* a counter overflows in the model exactly when it does in the code.
UINT8_VEHICLES == (UINT8 * MAX_VEHICLES_PER_LANE) \div CONFIG_MAX_VEHICLES_PER_LANE

(***************************************************************************)
(* types.h                                                                 *)
(***************************************************************************)
ROAD_NORTH == 0
ROAD_SOUTH == 1
ROAD_EAST == 2
ROAD_WEST == 3
ROAD_NONE == 4

MOVE_STRAIGHT == 0
MOVE_RIGHT == 1
MOVE_LEFT == 2
MOVE_INVALID == 3

LANE_LEFT == 0
LANE_STRAIGHT == 1
LANE_RIGHT == 2

LIGHT_RED == 0
LIGHT_YELLOW == 1
LIGHT_GREEN == 2
LIGHT_GREEN_ARROW == 3

PHASE_NS == 0
PHASE_EW == 1
PHASE_N_ARROW == 2
PHASE_S_ARROW == 3
PHASE_E_ARROW == 4
PHASE_W_ARROW == 5

\* The values a RoadDir argument can take, the sentinel included.
RoadDir == ROAD_NORTH .. ROAD_NONE
\* The roads of the intersection (indices of roads[] and lights[]).
Roads == 0 .. (ROAD_COUNT - 1)
Lanes == 0 .. (LANES_PER_ROAD - 1)
Phases == 0 .. (PHASE_COUNT - 1)

\* struct Vehicle
Vehicle(id, end_road, movement, enqueue_step) ==
    [id |-> id, end_road |-> end_road, movement |-> movement,
     enqueue_step |-> enqueue_step]

\* The content of a Vehicle slot that was never written; the code never reads
\* such a slot, so one representative value stands for it.
NoVehicle == Vehicle(0, 0, 0, 0)

VARIABLES
    roads,                  \* Intersection.roads[road][lane] : VehicleQueue
    lights,                 \* Intersection.lights[road] : TrafficLight
    current_phase,          \* Intersection.current_phase
    phase_steps_remaining,  \* Intersection.phase_steps_remaining
    in_yellow_transition,   \* Intersection.in_yellow_transition
    step_count,             \* Intersection.step_count
    activation,             \* the last decision applied by intersection_step, and the step that applied it
    departed,               \* departed[0..*count-1] of the last intersection_step
    added,                  \* number of vehicles accepted so far (the caller's id counter)
    call,                   \* the last call: its name, arguments, classification and return value
    scenario,               \* position of the caller in test_spec_example (0 = left it)
    q,                      \* a stand-alone VehicleQueue
    out,                    \* the Vehicle *out of queue_dequeue / queue_peek
    enq_log,                \* vehicles accepted by queue_enqueue on q, in order
    deq_log,                \* vehicles handed out by queue_dequeue on q, in order
    mv_log,                 \* the stand-alone movement_type calls: arguments and result
    light,                  \* a stand-alone TrafficLight
    light_set,              \* its last activation: state before, duration, ticks since
    last_decision,          \* the PhaseDecision of the last controller_next_phase call
    last_score,             \* phase and result of the last controller_phase_score call
    prev_sense,             \* SimulationContext.prev_sense[road][lane]
    vehicle_counter,        \* SimulationContext.vehicle_counter
    sensed,                 \* the lanes whose sensor read present in the last simulation_tick
    tick_added,             \* the lanes on which the last simulation_tick enqueued a vehicle
    pins,                   \* the light output pins that are high, per road (index = LightState)
    pin_writes,             \* the HAL_GPIO_WritePin calls of stm32_set_light that have not taken effect
    set_call                \* road and state of the stm32_set_light call in progress or last made

vars == <<roads, lights, current_phase, phase_steps_remaining,
          in_yellow_transition, step_count, activation, departed, added, call, scenario,
          q, out, enq_log, deq_log, mv_log, light, light_set, last_decision, last_score,
          prev_sense, vehicle_counter, sensed, tick_added, pins, pin_writes, set_call>>

interVars == <<roads, lights, current_phase, phase_steps_remaining,
               in_yellow_transition, step_count, activation>>
queueVars == <<q, out, enq_log, deq_log>>
unitVars == <<mv_log, light, light_set, last_decision, last_score>>
simVars == <<prev_sense, vehicle_counter, sensed, tick_added>>
halVars == <<pins, pin_writes, set_call>>

(***************************************************************************)
(* road.c : movement / lane derivation                                     *)
(***************************************************************************)
movement_table ==
    <<  <<MOVE_INVALID,  MOVE_STRAIGHT, MOVE_LEFT,     MOVE_RIGHT>>,
        <<MOVE_STRAIGHT, MOVE_INVALID,  MOVE_RIGHT,    MOVE_LEFT>>,
        <<MOVE_RIGHT,    MOVE_LEFT,     MOVE_INVALID,  MOVE_STRAIGHT>>,
        <<MOVE_LEFT,     MOVE_RIGHT,    MOVE_STRAIGHT, MOVE_INVALID>> >>

\* Mutant: only the sentinel is tested, a U-turn is classified as STRAIGHT.
movement_type_uturn(start, end) ==
    IF start >= ROAD_NONE \/ end >= ROAD_NONE
    THEN MOVE_INVALID
    ELSE IF start = end THEN MOVE_STRAIGHT ELSE movement_table[start + 1][end + 1]

\* Mutant: the table of a left-hand-traffic country, LEFT and RIGHT swapped.
movement_type_left_hand(start, end) ==
    IF start >= ROAD_NONE \/ end >= ROAD_NONE \/ start = end
    THEN MOVE_INVALID
    ELSE CASE movement_table[start + 1][end + 1] = MOVE_LEFT  -> MOVE_RIGHT
           [] movement_table[start + 1][end + 1] = MOVE_RIGHT -> MOVE_LEFT
           [] OTHER -> movement_table[start + 1][end + 1]

movement_type(start, end) ==
    IF start >= ROAD_NONE \/ end >= ROAD_NONE \/ start = end
    THEN MOVE_INVALID
    ELSE movement_table[start + 1][end + 1]

\* Mutant: right turns are routed to the left-turn lane.
lane_for_movement_right_as_left(movement) ==
    CASE movement = MOVE_STRAIGHT -> LANE_STRAIGHT
      [] OTHER                    -> LANE_LEFT

lane_for_movement(movement) ==
    CASE movement = MOVE_LEFT     -> LANE_LEFT
      [] movement = MOVE_STRAIGHT -> LANE_STRAIGHT
      [] movement = MOVE_RIGHT    -> LANE_RIGHT
      [] OTHER                    -> LANE_LEFT

(***************************************************************************)
(* road.c : VehicleQueue operations.  Each operator returns the queue      *)
(* after the call together with the return value (and *out).               *)
(***************************************************************************)
\* queue_init leaves buf alone; the slots hold whatever the memory held.
queue_init ==
    [buf |-> [i \in 0 .. (MAX_VEHICLES_PER_LANE - 1) |-> NoVehicle],
     head |-> 0, tail |-> 0, count |-> 0]

queue_is_empty(qu) == qu.count = 0

\* Mutant: off by one, a queue holding MAX_VEHICLES_PER_LANE vehicles is not full.
queue_is_full_late(qu) == qu.count > MAX_VEHICLES_PER_LANE

queue_is_full(qu) == qu.count >= MAX_VEHICLES_PER_LANE

\* Mutant: tail is advanced without the modulo.
queue_enqueue_no_wrap(qu, v) ==
    IF queue_is_full(qu)
    THEN [q |-> qu, ret |-> FALSE]
    ELSE [q |-> [buf   |-> [qu.buf EXCEPT ![qu.tail] = v],
                 head  |-> qu.head,
                 tail  |-> (qu.tail + 1) % UINT8,
                 count |-> (qu.count + 1) % UINT8],
          ret |-> TRUE]

\* Mutant: a full queue reports the failure but has already stored the vehicle.
queue_enqueue_writes_first(qu, v) ==
    [q |-> IF queue_is_full(qu)
           THEN [qu EXCEPT !.buf[qu.tail] = v]
           ELSE [buf   |-> [qu.buf EXCEPT ![qu.tail] = v],
                 head  |-> qu.head,
                 tail  |-> ((qu.tail + 1) % MAX_VEHICLES_PER_LANE) % UINT8,
                 count |-> (qu.count + 1) % UINT8],
     ret |-> ~queue_is_full(qu)]

queue_enqueue(qu, v) ==
    IF queue_is_full(qu)
    THEN [q |-> qu, ret |-> FALSE]
    ELSE [q |-> [buf   |-> [qu.buf EXCEPT ![qu.tail] = v],
                 head  |-> qu.head,
                 tail  |-> ((qu.tail + 1) % MAX_VEHICLES_PER_LANE) % UINT8,
                 count |-> (qu.count + 1) % UINT8],
          ret |-> TRUE]

\* Mutant: the vehicle handed out is the newest one (the slot before tail).
queue_dequeue_newest(qu, o, hasOut) ==
    IF queue_is_empty(qu)
    THEN [q |-> qu, out |-> o, ret |-> FALSE]
    ELSE [q |-> [buf   |-> qu.buf,
                 head  |-> ((qu.head + 1) % MAX_VEHICLES_PER_LANE) % UINT8,
                 tail  |-> qu.tail,
                 count |-> (qu.count - 1) % UINT8],
          out |-> IF hasOut
                  THEN qu.buf[(qu.tail + MAX_VEHICLES_PER_LANE - 1) % MAX_VEHICLES_PER_LANE]
                  ELSE o,
          ret |-> TRUE]

\* Mutant: the vehicle is counted out but head does not advance.
queue_dequeue_head_stays(qu, o, hasOut) ==
    IF queue_is_empty(qu)
    THEN [q |-> qu, out |-> o, ret |-> FALSE]
    ELSE [q |-> [buf   |-> qu.buf,
                 head  |-> qu.head,
                 tail  |-> qu.tail,
                 count |-> (qu.count - 1) % UINT8],
          out |-> IF hasOut THEN qu.buf[qu.head] ELSE o,
          ret |-> TRUE]

\* hasOut is FALSE when the caller passes NULL for out.
queue_dequeue(qu, o, hasOut) ==
    IF queue_is_empty(qu)
    THEN [q |-> qu, out |-> o, ret |-> FALSE]
    ELSE [q |-> [buf   |-> qu.buf,
                 head  |-> ((qu.head + 1) % MAX_VEHICLES_PER_LANE) % UINT8,
                 tail  |-> qu.tail,
                 count |-> (qu.count - 1) % UINT8],
          out |-> IF hasOut THEN qu.buf[qu.head] ELSE o,
          ret |-> TRUE]

\* Mutant: peek removes the vehicle it returns.
queue_peek_removes(qu, o) ==
    IF queue_is_empty(qu)
    THEN [q |-> qu, out |-> o, ret |-> FALSE]
    ELSE [q |-> [buf   |-> qu.buf,
                 head  |-> ((qu.head + 1) % MAX_VEHICLES_PER_LANE) % UINT8,
                 tail  |-> qu.tail,
                 count |-> (qu.count - 1) % UINT8],
          out |-> qu.buf[qu.head], ret |-> TRUE]

queue_peek(qu, o) ==
    IF queue_is_empty(qu)
    THEN [q |-> qu, out |-> o, ret |-> FALSE]
    ELSE [q |-> qu, out |-> qu.buf[qu.head], ret |-> TRUE]

(***************************************************************************)
(* road.c : Road operations.  A Road is its lanes[] array.                 *)
(***************************************************************************)
road_init == [l \in Lanes |-> queue_init]

\* Mutant: the MovementType is used as the lane index.
road_enqueue_by_movement(r, v) ==
    LET lane == v.movement
        res  == queue_enqueue(r[lane], v)
    IN  [road |-> [r EXCEPT ![lane] = res.q], ret |-> res.ret]

road_enqueue(r, v) ==
    LET lane == lane_for_movement(v.movement)
        res  == queue_enqueue(r[lane], v)
    IN  [road |-> [r EXCEPT ![lane] = res.q], ret |-> res.ret]

road_dequeue_lane(r, lane, o) ==
    LET res == queue_dequeue(r[lane], o, TRUE)
    IN  [road |-> [r EXCEPT ![lane] = res.q], out |-> res.out, ret |-> res.ret]

road_peek_lane(r, lane, o) == queue_peek(r[lane], o)

road_lane_count(r, lane) == r[lane].count

\* road_total_count: the three lane counts added into a uint8_t.
RECURSIVE road_total_count_from(_, _, _)
road_total_count_from(r, i, total) ==
    IF i >= LANES_PER_ROAD THEN total
    ELSE road_total_count_from(r, i + 1, (total + r[i].count) % UINT8_VEHICLES)

road_total_count(r) == road_total_count_from(r, 0, 0)

(***************************************************************************)
(* traffic_light.c.  A TrafficLight is [state, steps_remaining].           *)
(***************************************************************************)
traffic_light_init == [state |-> LIGHT_RED, steps_remaining |-> 0]

\* Mutant: the state is set, the duration is not stored.
traffic_light_set_green_no_duration(tl, duration) ==
    [state |-> LIGHT_GREEN, steps_remaining |-> tl.steps_remaining]

\* Mutant: the light stays green one step longer than the duration.
traffic_light_set_green_extra_step(tl, duration) ==
    [state |-> LIGHT_GREEN, steps_remaining |-> (duration + 1) % UINT8]

traffic_light_set_green(tl, duration) ==
    [state |-> LIGHT_GREEN, steps_remaining |-> duration]

\* Mutant: the arrow is lit for one step less than the duration.
traffic_light_set_green_arrow_short(tl, duration) ==
    [state |-> LIGHT_GREEN_ARROW, steps_remaining |-> duration - 1]

traffic_light_set_green_arrow(tl, duration) ==
    [state |-> LIGHT_GREEN_ARROW, steps_remaining |-> duration]

\* Mutant: the zero test comes before the decrement, the light changes a tick late.
traffic_light_tick_late(tl) ==
    IF tl.state = LIGHT_RED
    THEN tl
    ELSE IF tl.steps_remaining > 0
         THEN [state |-> tl.state, steps_remaining |-> tl.steps_remaining - 1]
         ELSE CASE tl.state \in {LIGHT_GREEN, LIGHT_GREEN_ARROW} ->
                     [state |-> LIGHT_YELLOW, steps_remaining |-> YELLOW_STEPS]
                [] OTHER -> [state |-> LIGHT_RED, steps_remaining |-> 0]

\* Mutant: the green case of the switch falls through into the yellow case.
traffic_light_tick_fallthrough(tl) ==
    IF tl.state = LIGHT_RED
    THEN tl
    ELSE LET n == IF tl.steps_remaining > 0 THEN tl.steps_remaining - 1
                  ELSE tl.steps_remaining
         IN  IF n = 0
             THEN CASE tl.state \in {LIGHT_GREEN, LIGHT_GREEN_ARROW} ->
                         [state |-> LIGHT_RED, steps_remaining |-> YELLOW_STEPS]
                    [] tl.state = LIGHT_YELLOW ->
                         [state |-> LIGHT_RED, steps_remaining |-> n]
                    [] OTHER -> [state |-> tl.state, steps_remaining |-> n]
             ELSE [state |-> tl.state, steps_remaining |-> n]

\* Mutant: the light turns yellow without loading YELLOW_STEPS.
traffic_light_tick_no_reload(tl) ==
    IF tl.state = LIGHT_RED
    THEN tl
    ELSE LET n == IF tl.steps_remaining > 0 THEN tl.steps_remaining - 1
                  ELSE tl.steps_remaining
         IN  IF n = 0
             THEN CASE tl.state \in {LIGHT_GREEN, LIGHT_GREEN_ARROW} ->
                         [state |-> LIGHT_YELLOW, steps_remaining |-> n]
                    [] tl.state = LIGHT_YELLOW ->
                         [state |-> LIGHT_RED, steps_remaining |-> n]
                    [] OTHER -> [state |-> tl.state, steps_remaining |-> n]
             ELSE [state |-> tl.state, steps_remaining |-> n]

traffic_light_tick(tl) ==
    IF tl.state = LIGHT_RED
    THEN tl
    ELSE LET n == IF tl.steps_remaining > 0 THEN tl.steps_remaining - 1
                  ELSE tl.steps_remaining
         IN  IF n = 0
             THEN CASE tl.state \in {LIGHT_GREEN, LIGHT_GREEN_ARROW} ->
                         [state |-> LIGHT_YELLOW, steps_remaining |-> YELLOW_STEPS]
                    [] tl.state = LIGHT_YELLOW ->
                         [state |-> LIGHT_RED, steps_remaining |-> n]
                    [] OTHER -> [state |-> tl.state, steps_remaining |-> n]
             ELSE [state |-> tl.state, steps_remaining |-> n]

traffic_light_is_green(tl) ==
    tl.state = LIGHT_GREEN \/ tl.state = LIGHT_GREEN_ARROW

(***************************************************************************)
(* controller.c                                                            *)
(***************************************************************************)
\* roads is the roads[] array of the phase, 1-indexed here.
PHASE_INFO ==
    [p \in Phases |->
        CASE p = PHASE_NS      -> [roads |-> <<ROAD_NORTH, ROAD_SOUTH>>, road_count |-> 2, is_arrow |-> FALSE]
          [] p = PHASE_EW      -> [roads |-> <<ROAD_EAST, ROAD_WEST>>,   road_count |-> 2, is_arrow |-> FALSE]
          [] p = PHASE_N_ARROW -> [roads |-> <<ROAD_NORTH, ROAD_NONE>>,  road_count |-> 1, is_arrow |-> TRUE]
          [] p = PHASE_S_ARROW -> [roads |-> <<ROAD_SOUTH, ROAD_NONE>>,  road_count |-> 1, is_arrow |-> TRUE]
          [] p = PHASE_E_ARROW -> [roads |-> <<ROAD_EAST, ROAD_NONE>>,   road_count |-> 1, is_arrow |-> TRUE]
          [] p = PHASE_W_ARROW -> [roads |-> <<ROAD_WEST, ROAD_NONE>>,   road_count |-> 1, is_arrow |-> TRUE]]

\* Mutant: the wait of the front vehicle is left out of the score.
score_lane_no_wait(road, lane, steps) == road_lane_count(road, lane)

\* Mutant: the number of vehicles is left out of the score.
score_lane_front_only(road, lane, steps) ==
    LET count == road_lane_count(road, lane)
        peek  == road_peek_lane(road, lane, NoVehicle)
        wait  == IF peek.ret THEN (steps - peek.out.enqueue_step) % UINT32 ELSE 0
    IN  IF count = 0 THEN 0 ELSE (1 + wait) % UINT32

\* Mutant: a lane whose front vehicle has no known destination does not count.
score_lane_known_destination(road, lane, steps) ==
    LET count == road_lane_count(road, lane)
        peek  == road_peek_lane(road, lane, NoVehicle)
        wait  == IF peek.ret THEN (steps - peek.out.enqueue_step) % UINT32 ELSE 0
    IN  IF count = 0 THEN 0
        ELSE IF peek.out.end_road = ROAD_NONE THEN 0
        ELSE (count * ((1 + wait) % UINT32)) % UINT32

score_lane(road, lane, steps) ==
    LET count == road_lane_count(road, lane)
        peek  == road_peek_lane(road, lane, NoVehicle)
        wait  == IF peek.ret THEN (steps - peek.out.enqueue_step) % UINT32 ELSE 0
    IN  IF count = 0 THEN 0
        ELSE (count * ((1 + wait) % UINT32)) % UINT32

\* Mutant: a main phase releases the left-turn lane as well.
served_lanes_with_left(phase) ==
    IF PHASE_INFO[phase].is_arrow THEN <<LANE_LEFT>>
    ELSE <<LANE_STRAIGHT, LANE_RIGHT, LANE_LEFT>>

\* The lanes a phase serves on each of its roads, in the order the code visits them.
served_lanes(phase) ==
    IF PHASE_INFO[phase].is_arrow THEN <<LANE_LEFT>>
    ELSE <<LANE_STRAIGHT, LANE_RIGHT>>

RECURSIVE phase_vehicle_count_from(_, _, _, _)
phase_vehicle_count_from(rds, phase, r, total) ==
    IF r > PHASE_INFO[phase].road_count THEN total
    ELSE LET road == rds[PHASE_INFO[phase].roads[r]]
             t1   == IF PHASE_INFO[phase].is_arrow
                     THEN (total + road_lane_count(road, LANE_LEFT)) % UINT8_VEHICLES
                     ELSE (((total + road_lane_count(road, LANE_STRAIGHT)) % UINT8_VEHICLES)
                            + road_lane_count(road, LANE_RIGHT)) % UINT8_VEHICLES
         IN  phase_vehicle_count_from(rds, phase, r + 1, t1)

phase_vehicle_count(rds, phase) == phase_vehicle_count_from(rds, phase, 1, 0)

RECURSIVE controller_phase_score_from(_, _, _, _, _)
controller_phase_score_from(rds, steps, phase, r, score) ==
    IF r > PHASE_INFO[phase].road_count THEN score
    ELSE LET road == rds[PHASE_INFO[phase].roads[r]]
             s1   == IF PHASE_INFO[phase].is_arrow
                     THEN (score + score_lane(road, LANE_LEFT, steps)) % UINT32
                     ELSE (((score + score_lane(road, LANE_STRAIGHT, steps)) % UINT32)
                            + score_lane(road, LANE_RIGHT, steps)) % UINT32
         IN  controller_phase_score_from(rds, steps, phase, r + 1, s1)

\* Mutant: the three lanes of each road are scored, whatever the phase.
controller_phase_score_all_lanes(rds, steps, phase) ==
    LET info == PHASE_INFO[phase]
        road_score(r) ==
            IF r > info.road_count THEN 0
            ELSE score_lane(rds[info.roads[r]], LANE_LEFT, steps)
                 + score_lane(rds[info.roads[r]], LANE_STRAIGHT, steps)
                 + score_lane(rds[info.roads[r]], LANE_RIGHT, steps)
    IN  (road_score(1) + road_score(2)) % UINT32

controller_phase_score(rds, steps, phase) ==
    controller_phase_score_from(rds, steps, phase, 1, 0)

\* The for loop of controller_next_phase from p on: [phase, score] of the best.
RECURSIVE best_phase_from(_, _, _, _, _)
best_phase_from(rds, steps, p, best_phase, best_score) ==
    IF p >= PHASE_COUNT THEN best_phase
    ELSE LET score == controller_phase_score(rds, steps, p)
         IN  IF score > best_score
             THEN best_phase_from(rds, steps, p + 1, p, score)
             ELSE best_phase_from(rds, steps, p + 1, best_phase, best_score)

\* Mutant: the scan stops at the first phase that beats the current one.
controller_next_phase_first_better(rds, steps, cur) ==
    LET cur_score  == controller_phase_score(rds, steps, cur)
        better     == { p \in Phases : controller_phase_score(rds, steps, p) > cur_score }
        best_phase == IF better = {} THEN cur
                      ELSE CHOOSE p \in better : \A o \in better : p <= o
        count      == phase_vehicle_count(rds, best_phase)
        duration   == IF count < MIN_GREEN_STEPS THEN MIN_GREEN_STEPS
                      ELSE IF count > MAX_GREEN_STEPS THEN MAX_GREEN_STEPS
                      ELSE count
    IN  [phase |-> best_phase, duration |-> duration]

\* Mutant: the scan starts from phase 0 instead of the current phase, so the
\* lowest-numbered phase wins a tie.
controller_next_phase_from_zero(rds, steps, cur) ==
    LET best_phase == best_phase_from(rds, steps, 0, 0,
                                      controller_phase_score(rds, steps, 0))
        count      == phase_vehicle_count(rds, best_phase)
        duration   == IF count < MIN_GREEN_STEPS THEN MIN_GREEN_STEPS
                      ELSE IF count > MAX_GREEN_STEPS THEN MAX_GREEN_STEPS
                      ELSE count
    IN  [phase |-> best_phase, duration |-> duration]

\* Mutant: the controller never leaves the current phase.
controller_next_phase_keeps_current(rds, steps, cur) ==
    LET count      == phase_vehicle_count(rds, cur)
        duration   == IF count < MIN_GREEN_STEPS THEN MIN_GREEN_STEPS
                      ELSE IF count > MAX_GREEN_STEPS THEN MAX_GREEN_STEPS
                      ELSE count
    IN  [phase |-> cur, duration |-> duration]

controller_next_phase(rds, steps, cur) ==
    LET best_phase == best_phase_from(rds, steps, 0, cur,
                                      controller_phase_score(rds, steps, cur))
        count      == phase_vehicle_count(rds, best_phase)
        duration   == IF count < MIN_GREEN_STEPS THEN MIN_GREEN_STEPS
                      ELSE IF count > MAX_GREEN_STEPS THEN MAX_GREEN_STEPS
                      ELSE count
    IN  [phase |-> best_phase, duration |-> duration]

(***************************************************************************)
(* intersection.c                                                          *)
(***************************************************************************)
\* The lights after apply_phase; it also sets current_phase,
\* phase_steps_remaining and in_yellow_transition (see IntersectionStep).
RECURSIVE apply_phase_from(_, _, _)
apply_phase_from(lts, decision, r) ==
    IF r > PHASE_INFO[decision.phase].road_count THEN lts
    ELSE LET dir == PHASE_INFO[decision.phase].roads[r]
             tl  == IF PHASE_INFO[decision.phase].is_arrow
                    THEN traffic_light_set_green_arrow(lts[dir], decision.duration)
                    ELSE traffic_light_set_green(lts[dir], decision.duration)
         IN  apply_phase_from([lts EXCEPT ![dir] = tl], decision, r + 1)

\* Mutant: only the first road of the phase is activated.
apply_phase_first_road(lts, decision) ==
    LET dir == PHASE_INFO[decision.phase].roads[1]
    IN  [lts EXCEPT ![dir] =
            IF PHASE_INFO[decision.phase].is_arrow
            THEN traffic_light_set_green_arrow(lts[dir], decision.duration)
            ELSE traffic_light_set_green(lts[dir], decision.duration)]

apply_phase(lts, decision) == apply_phase_from(lts, decision, 1)

\* Mutant: only the first served lane of a green road is released.
release_lanes_first_lane(rds, dep, dir, ls, i) ==
    LET res == road_dequeue_lane(rds[dir], ls[i], NoVehicle)
    IN  IF res.ret
        THEN [roads |-> [rds EXCEPT ![dir] = res.road], departed |-> Append(dep, res.out)]
        ELSE [roads |-> rds, departed |-> dep]

\* Mutant: the lanes of a green road are released last lane first.
RECURSIVE release_lanes_last_first(_, _, _, _, _)
release_lanes_last_first(rds, dep, dir, ls, i) ==
    IF i > Len(ls) THEN [roads |-> rds, departed |-> dep]
    ELSE LET res == road_dequeue_lane(rds[dir], ls[Len(ls) + 1 - i], NoVehicle)
         IN  IF res.ret
             THEN release_lanes_last_first([rds EXCEPT ![dir] = res.road],
                                           Append(dep, res.out), dir, ls, i + 1)
             ELSE release_lanes_last_first(rds, dep, dir, ls, i + 1)

\* Mutant: a released vehicle is reported as departed but stays in its lane.
RECURSIVE release_lanes_keeps_vehicle(_, _, _, _, _)
release_lanes_keeps_vehicle(rds, dep, dir, ls, i) ==
    IF i > Len(ls) THEN [roads |-> rds, departed |-> dep]
    ELSE LET res == road_dequeue_lane(rds[dir], ls[i], NoVehicle)
         IN  IF res.ret
             THEN release_lanes_keeps_vehicle(rds, Append(dep, res.out), dir, ls, i + 1)
             ELSE release_lanes_keeps_vehicle(rds, dep, dir, ls, i + 1)

\* Dequeue the front of the lanes ls[i..] of road dir: [roads, departed].
RECURSIVE release_lanes(_, _, _, _, _)
release_lanes(rds, dep, dir, ls, i) ==
    IF i > Len(ls) THEN [roads |-> rds, departed |-> dep]
    ELSE LET res == road_dequeue_lane(rds[dir], ls[i], NoVehicle)
         IN  IF res.ret
             THEN release_lanes([rds EXCEPT ![dir] = res.road],
                                Append(dep, res.out), dir, ls, i + 1)
             ELSE release_lanes(rds, dep, dir, ls, i + 1)

\* Mutant: the step that applies a new phase only switches the lights; the
\* vehicles start to leave in the step after.
RECURSIVE release_from_after_switch(_, _, _, _, _)
release_from_after_switch(rds, lts, phase, r, dep) ==
    IF r > PHASE_INFO[phase].road_count \/ phase_steps_remaining = 0
    THEN [roads |-> rds, departed |-> dep]
    ELSE LET dir == PHASE_INFO[phase].roads[r]
         IN  IF ~traffic_light_is_green(lts[dir])
             THEN release_from_after_switch(rds, lts, phase, r + 1, dep)
             ELSE LET res == release_lanes(rds, dep, dir, served_lanes(phase), 1)
                  IN  release_from_after_switch(res.roads, lts, phase, r + 1, res.departed)

\* Stage 2 of intersection_step from road index r on: [roads, departed].
RECURSIVE release_from(_, _, _, _, _)
release_from(rds, lts, phase, r, dep) ==
    IF r > PHASE_INFO[phase].road_count THEN [roads |-> rds, departed |-> dep]
    ELSE LET dir == PHASE_INFO[phase].roads[r]
         IN  IF ~traffic_light_is_green(lts[dir])
             THEN release_from(rds, lts, phase, r + 1, dep)
             ELSE LET res == release_lanes(rds, dep, dir, served_lanes(phase), 1)
                  IN  release_from(res.roads, lts, phase, r + 1, res.departed)

intersection_init ==
    [roads                 |-> [r \in Roads |-> road_init],
     lights                |-> [r \in Roads |-> traffic_light_init],
     current_phase         |-> PHASE_NS,
     phase_steps_remaining |-> 0,
     in_yellow_transition  |-> FALSE,
     step_count            |-> 0]

\* intersection_total_waiting: the four road totals added into a uint8_t.
RECURSIVE intersection_total_waiting_from(_, _, _)
intersection_total_waiting_from(rds, i, total) ==
    IF i >= ROAD_COUNT THEN total
    ELSE intersection_total_waiting_from(rds, i + 1,
                                         (total + road_total_count(rds[i])) % UINT8_VEHICLES)

intersection_total_waiting(rds) == intersection_total_waiting_from(rds, 0, 0)

\* simulation_init: memset(ctx, 0), then intersection_init(&ctx->inter)
simulation_init ==
    [inter           |-> intersection_init,
     prev_sense      |-> [r \in Roads |-> [l \in Lanes |-> FALSE]],
     vehicle_counter |-> 0]

\* lane_to_movement[] of intersection_add_vehicle_by_lane
lane_to_movement(lane) ==
    CASE lane = LANE_LEFT     -> MOVE_LEFT
      [] lane = LANE_STRAIGHT -> MOVE_STRAIGHT
      [] lane = LANE_RIGHT    -> MOVE_RIGHT

\* Stage 1 of intersection_step: the controller is asked when the phase is exhausted.
StepDecides == phase_steps_remaining = 0

StepDecision == controller_next_phase(roads, step_count, current_phase)

\* The lights, the phase and its remaining steps after stage 1, as stage 2 reads them.
LightsAtRelease ==
    IF StepDecides THEN apply_phase(lights, StepDecision) ELSE lights

PhaseAtRelease ==
    IF StepDecides THEN StepDecision.phase ELSE current_phase

RemainingAtRelease_min ==
    IF StepDecides THEN MIN_GREEN_STEPS ELSE phase_steps_remaining

RemainingAtRelease ==
    IF StepDecides THEN StepDecision.duration ELSE phase_steps_remaining

(***************************************************************************)
(* test_spec_example: the calls of the canonical end-to-end test.          *)
(* scenario = k says that the calls made so far are exactly its first k    *)
(* calls; ScenarioLeft says that the caller did something else.            *)
(***************************************************************************)
Call(op, start, end) == [op |-> op, start |-> start, end |-> end]

test_spec_example ==
    << Call("add_vehicle", ROAD_SOUTH, ROAD_NORTH),
       Call("add_vehicle", ROAD_NORTH, ROAD_SOUTH),
       Call("step", ROAD_NONE, ROAD_NONE),
       Call("step", ROAD_NONE, ROAD_NONE),
       Call("add_vehicle", ROAD_WEST, ROAD_SOUTH),
       Call("add_vehicle", ROAD_WEST, ROAD_SOUTH),
       Call("step", ROAD_NONE, ROAD_NONE),
       Call("step", ROAD_NONE, ROAD_NONE) >>

ScenarioLeft == Len(test_spec_example) + 1

scenario_after(c) ==
    IF scenario < Len(test_spec_example) /\ test_spec_example[scenario + 1] = c
    THEN scenario + 1
    ELSE ScenarioLeft

\* No decision has been applied yet: intersection_init leaves PHASE_NS with no steps.
NoActivation == [phase |-> intersection_init.current_phase, duration |-> 0, step |-> 0]

\* What the caller holds before it has asked the controller.
NoDecision == [phase |-> intersection_init.current_phase, duration |-> 0]
NoScore == [phase |-> intersection_init.current_phase, score |-> 0]

(***************************************************************************)
(* The state after construction.                                           *)
(***************************************************************************)
Init ==
    /\ roads = intersection_init.roads
    /\ lights = intersection_init.lights
    /\ current_phase = intersection_init.current_phase
    /\ phase_steps_remaining = intersection_init.phase_steps_remaining
    /\ in_yellow_transition = intersection_init.in_yellow_transition
    /\ step_count = intersection_init.step_count
    /\ activation = NoActivation
    /\ departed = <<>>
    /\ added = 0
    /\ call = [op |-> "init", args |-> <<>>, mv |-> MOVE_INVALID, ret |-> TRUE]
    /\ scenario = 0
    /\ q = queue_init
    /\ out = NoVehicle
    /\ enq_log = <<>>
    /\ deq_log = <<>>
    /\ mv_log = <<>>
    /\ light = traffic_light_init
    /\ light_set = [from |-> LIGHT_RED, duration |-> 0, ticks |-> 0, set |-> FALSE]
    /\ last_decision = NoDecision
    /\ last_score = NoScore
    /\ prev_sense = simulation_init.prev_sense
    /\ vehicle_counter = simulation_init.vehicle_counter
    /\ sensed = {}
    /\ tick_added = {}
    /\ pins = [r \in Roads |-> {}]
    /\ pin_writes = {}
    /\ set_call = [road |-> ROAD_NORTH, state |-> LIGHT_RED]

(***************************************************************************)
(* The calls on the intersection.  Each changes the Intersection, the      *)
(* caller's departed[] and the record of the call.                         *)
(***************************************************************************)
\* Mutant: the vehicle is stamped with step 0 instead of the current step.
intersection_add_vehicle_unstamped(start, end, id) ==
    LET mv  == movement_type(start, end)
        v   == Vehicle(id, end, mv, 0)
        res == IF mv = MOVE_INVALID
               THEN [road |-> <<>>, ret |-> FALSE]
               ELSE road_enqueue(roads[start], v)
    IN  /\ roads' = IF mv = MOVE_INVALID THEN roads
                    ELSE [roads EXCEPT ![start] = res.road]
        /\ call' = [op |-> "add_vehicle", args |-> <<start, end>>, mv |-> mv,
                    ret |-> res.ret]
        /\ UNCHANGED <<lights, current_phase, phase_steps_remaining,
                       in_yellow_transition, step_count, activation, departed>>

\* Mutant: the vehicle is stamped with the number of the step to come.
intersection_add_vehicle_stamped_ahead(start, end, id) ==
    LET mv  == movement_type(start, end)
        v   == Vehicle(id, end, mv, (step_count + 1) % UINT32)
        res == IF mv = MOVE_INVALID
               THEN [road |-> <<>>, ret |-> FALSE]
               ELSE road_enqueue(roads[start], v)
    IN  /\ roads' = IF mv = MOVE_INVALID THEN roads
                    ELSE [roads EXCEPT ![start] = res.road]
        /\ call' = [op |-> "add_vehicle", args |-> <<start, end>>, mv |-> mv,
                    ret |-> res.ret]
        /\ UNCHANGED <<lights, current_phase, phase_steps_remaining,
                       in_yellow_transition, step_count, activation, departed>>

\* intersection_add_vehicle(inter, start, end, id)
intersection_add_vehicle(start, end, id) ==
    LET mv  == movement_type(start, end)
        v   == Vehicle(id, end, mv, step_count)
        res == IF mv = MOVE_INVALID
               THEN [road |-> <<>>, ret |-> FALSE]
               ELSE road_enqueue(roads[start], v)
    IN  /\ roads' = IF mv = MOVE_INVALID THEN roads
                    ELSE [roads EXCEPT ![start] = res.road]
        /\ call' = [op |-> "add_vehicle", args |-> <<start, end>>, mv |-> mv,
                    ret |-> res.ret]
        /\ UNCHANGED <<lights, current_phase, phase_steps_remaining,
                       in_yellow_transition, step_count, activation, departed>>

\* intersection_add_vehicle_by_lane(inter, road, lane, id)
intersection_add_vehicle_by_lane(road, lane, id) ==
    LET valid == ~(road >= ROAD_COUNT \/ lane >= LANES_PER_ROAD)
        mv    == IF valid THEN lane_to_movement(lane) ELSE MOVE_INVALID
        v     == Vehicle(id, ROAD_NONE, mv, step_count)
        res   == IF valid THEN queue_enqueue(roads[road][lane], v)
                 ELSE [q |-> <<>>, ret |-> FALSE]
    IN  /\ roads' = IF valid THEN [roads EXCEPT ![road][lane] = res.q] ELSE roads
        /\ call' = [op |-> "add_vehicle_by_lane", args |-> <<road, lane>>, mv |-> mv,
                    ret |-> res.ret]
        /\ UNCHANGED <<lights, current_phase, phase_steps_remaining,
                       in_yellow_transition, step_count, activation, departed>>

\* Mutant: stage 4 counts the step but does not count the phase down.
intersection_step_no_countdown ==
    LET rel == release_from(roads, LightsAtRelease, PhaseAtRelease, 1, <<>>)
    IN  /\ roads' = rel.roads
        /\ departed' = rel.departed
        /\ lights' = [i \in Roads |-> traffic_light_tick(LightsAtRelease[i])]
        /\ current_phase' = PhaseAtRelease
        /\ in_yellow_transition' = IF StepDecides THEN FALSE ELSE in_yellow_transition
        /\ phase_steps_remaining' = RemainingAtRelease
        /\ step_count' = (step_count + 1) % UINT32
        /\ activation' = IF StepDecides
                          THEN [phase    |-> StepDecision.phase,
                                duration |-> StepDecision.duration,
                                step     |-> step_count]
                          ELSE activation
        /\ call' = [op |-> "step", args |-> <<>>, mv |-> MOVE_INVALID, ret |-> TRUE]

\* intersection_step(inter, departed, count)
intersection_step ==
    LET rel == release_from(roads, LightsAtRelease, PhaseAtRelease, 1, <<>>)
    IN  /\ roads' = rel.roads
        /\ departed' = rel.departed
        /\ lights' = [i \in Roads |-> traffic_light_tick(LightsAtRelease[i])]
        /\ current_phase' = PhaseAtRelease
        /\ in_yellow_transition' = IF StepDecides THEN FALSE ELSE in_yellow_transition
        /\ phase_steps_remaining' = IF RemainingAtRelease > 0
                                    THEN RemainingAtRelease - 1
                                    ELSE RemainingAtRelease
        /\ step_count' = (step_count + 1) % UINT32
        /\ activation' = IF StepDecides
                          THEN [phase    |-> StepDecision.phase,
                                duration |-> StepDecision.duration,
                                step     |-> step_count]
                          ELSE activation
        /\ call' = [op |-> "step", args |-> <<>>, mv |-> MOVE_INVALID, ret |-> TRUE]

(***************************************************************************)
(* The caller of the intersection: it numbers its vehicles 1, 2, ... in    *)
(* the order in which they are accepted, and stops after MaxVehicles       *)
(* accepted vehicles and MaxSteps steps.                                   *)
(***************************************************************************)
\* The lane a vehicle from start to end belongs to (intersection.h, README).
LaneOf(start, end) ==
    CASE <<start, end>> \in { <<ROAD_NORTH, ROAD_EAST>>, <<ROAD_SOUTH, ROAD_WEST>>,
                              <<ROAD_EAST, ROAD_SOUTH>>, <<ROAD_WEST, ROAD_NORTH>> } -> LANE_LEFT
      [] <<start, end>> \in { <<ROAD_NORTH, ROAD_WEST>>, <<ROAD_SOUTH, ROAD_EAST>>,
                              <<ROAD_EAST, ROAD_NORTH>>, <<ROAD_WEST, ROAD_SOUTH>> } -> LANE_RIGHT
      [] OTHER -> LANE_STRAIGHT

\* The calls the interface says are rejected: a U-turn, the sentinel, a full lane.
Unroutable(start, end) == start = end \/ start = ROAD_NONE \/ end = ROAD_NONE

LaneIsFull(road, lane) == roads[road][lane].count = MAX_VEHICLES_PER_LANE

MustReject(start, end) ==
    IF Unroutable(start, end) THEN TRUE ELSE LaneIsFull(start, LaneOf(start, end))

MustRejectByLane(road, lane) ==
    IF road \notin Roads \/ lane \notin Lanes THEN TRUE ELSE LaneIsFull(road, lane)

\* The (start, end) arguments the caller passes to intersection_add_vehicle:
\* every U-turn and every use of the sentinel, and a movement for each phase.
AddInputs ==
    { in \in RoadDir \X RoadDir : in[1] = in[2] \/ in[1] = ROAD_NONE \/ in[2] = ROAD_NONE }
    \cup { <<ROAD_NORTH, ROAD_SOUTH>>, <<ROAD_SOUTH, ROAD_NORTH>>, <<ROAD_WEST, ROAD_SOUTH>>,
           <<ROAD_NORTH, ROAD_EAST>>, <<ROAD_SOUTH, ROAD_WEST>>,
           <<ROAD_EAST, ROAD_SOUTH>>, <<ROAD_WEST, ROAD_NORTH>> }

\* The (road, lane) arguments the caller passes to intersection_add_vehicle_by_lane.
ByLaneInputs ==
    { <<ROAD_NORTH, LANE_LEFT>>, <<ROAD_EAST, LANE_STRAIGHT>>,
      <<ROAD_NONE, LANE_LEFT>>, <<ROAD_SOUTH, LANES_PER_ROAD>> }

AddVehicle ==
    \E in \in AddInputs :
        /\ IF added < MaxVehicles THEN TRUE ELSE MustReject(in[1], in[2])
        /\ intersection_add_vehicle(in[1], in[2], added + 1)
        /\ added' = IF call'.ret THEN added + 1 ELSE added
        /\ UNCHANGED scenario
        /\ UNCHANGED <<queueVars, unitVars, simVars, halVars>>

AddVehicleByLane ==
    \E in \in ByLaneInputs :
        /\ IF added < MaxVehicles THEN TRUE ELSE MustRejectByLane(in[1], in[2])
        /\ intersection_add_vehicle_by_lane(in[1], in[2], added + 1)
        /\ added' = IF call'.ret THEN added + 1 ELSE added
        /\ UNCHANGED scenario
        /\ UNCHANGED <<queueVars, unitVars, simVars, halVars>>

Step ==
    /\ step_count < MaxSteps
    /\ intersection_step
    /\ UNCHANGED <<added, scenario>>
    /\ UNCHANGED <<queueVars, unitVars, simVars, halVars>>

Next == AddVehicle \/ AddVehicleByLane \/ Step

Spec == Init /\ [][Next]_vars

(***************************************************************************)
(* The caller of test_spec_example and of its variations: the same calls   *)
(* with the movements of the test, in any order.                           *)
(***************************************************************************)
ScenarioInputs ==
    { <<test_spec_example[i].start, test_spec_example[i].end>> :
        i \in { j \in 1 .. Len(test_spec_example) : test_spec_example[j].op = "add_vehicle" } }

ScenarioAdd ==
    \E in \in ScenarioInputs :
        /\ IF added < MaxScenarioVehicles THEN TRUE ELSE MustReject(in[1], in[2])
        /\ intersection_add_vehicle(in[1], in[2], added + 1)
        /\ added' = IF call'.ret THEN added + 1 ELSE added
        /\ scenario' = scenario_after(Call("add_vehicle", in[1], in[2]))
        /\ UNCHANGED <<queueVars, unitVars, simVars, halVars>>

ScenarioStep ==
    /\ step_count < MaxScenarioSteps
    /\ intersection_step
    /\ scenario' = scenario_after(Call("step", ROAD_NONE, ROAD_NONE))
    /\ UNCHANGED added
    /\ UNCHANGED <<queueVars, unitVars, simVars, halVars>>

ScenarioNext == ScenarioAdd \/ ScenarioStep

ScenarioSpec == Init /\ [][ScenarioNext]_vars

(***************************************************************************)
(* A caller that keeps the intersection busy: between any two steps it may *)
(* offer vehicles on the left-turn lane of North and on the right-turn     *)
(* lane of West (two competing phases), as long as fewer than MaxWaiting   *)
(* vehicles wait.  An id is used again once its vehicle has left and is no *)
(* longer in the caller's departed[].                                      *)
(***************************************************************************)
BusyInputs == { <<ROAD_NORTH, ROAD_EAST>>, <<ROAD_WEST, ROAD_SOUTH>> }

BusyIds == 1 .. MaxWaiting

\* The vehicles a queue holds, front first.
Content(qu) ==
    [i \in 1 .. qu.count |-> qu.buf[(qu.head + i - 1) % MAX_VEHICLES_PER_LANE]]

\* The vehicles waiting in the twelve lanes.
Waiting ==
    { Content(roads[r][l])[i] : r \in Roads, l \in Lanes, i \in 1 .. MAX_VEHICLES_PER_LANE }

IsWaiting(id) ==
    \E r \in Roads, l \in Lanes :
        \E i \in 1 .. roads[r][l].count : Content(roads[r][l])[i].id = id

HasDeparted(id) == \E i \in 1 .. Len(departed) : departed[i].id = id

FreeIds == { id \in BusyIds : ~IsWaiting(id) /\ ~HasDeparted(id) }

BusyAdd ==
    \E in \in BusyInputs :
        /\ FreeIds # {}
        /\ intersection_add_vehicle(in[1], in[2],
                                    CHOOSE id \in FreeIds : \A o \in FreeIds : id <= o)
        /\ UNCHANGED <<added, scenario>>
        /\ UNCHANGED <<queueVars, unitVars, simVars, halVars>>

BusyStep ==
    /\ step_count < MaxBusySteps
    /\ intersection_step
    /\ UNCHANGED <<added, scenario>>
    /\ UNCHANGED <<queueVars, unitVars, simVars, halVars>>

BusyNext == BusyAdd \/ BusyStep

BusySpec == Init /\ [][BusyNext]_vars

(***************************************************************************)
(* The calls on a stand-alone VehicleQueue.                                *)
(***************************************************************************)
QueueVehicles == {Vehicle(id, ROAD_NONE, MOVE_STRAIGHT, 0) : id \in 1 .. MaxQueueId}

QueueEnqueue(v) ==
    LET res == queue_enqueue(q, v)
    IN  /\ IF Len(enq_log) < MaxEnqueues THEN TRUE ELSE q.count = MAX_VEHICLES_PER_LANE
        /\ q' = res.q
        /\ enq_log' = IF res.ret THEN Append(enq_log, v) ELSE enq_log
        /\ call' = [op |-> "queue_enqueue", args |-> <<>>, mv |-> MOVE_INVALID,
                    ret |-> res.ret]
        /\ UNCHANGED <<out, deq_log>>

QueueDequeue(hasOut) ==
    LET res == queue_dequeue(q, out, hasOut)
    IN  /\ q' = res.q
        /\ out' = res.out
        /\ deq_log' = IF res.ret
                      THEN Append(deq_log, [seen |-> hasOut, v |-> res.out])
                      ELSE deq_log
        /\ call' = [op |-> "queue_dequeue", args |-> <<>>, mv |-> MOVE_INVALID,
                    ret |-> res.ret]
        /\ UNCHANGED enq_log

QueuePeek ==
    LET res == queue_peek(q, out)
    IN  /\ q' = res.q
        /\ out' = res.out
        /\ call' = [op |-> "queue_peek", args |-> <<>>, mv |-> MOVE_INVALID,
                    ret |-> res.ret]
        /\ UNCHANGED <<enq_log, deq_log>>

Enqueue == \E v \in QueueVehicles : QueueEnqueue(v) /\ UNCHANGED interVars
                                    /\ UNCHANGED <<departed, added, scenario, unitVars, simVars, halVars>>

Dequeue == \E hasOut \in BOOLEAN : QueueDequeue(hasOut) /\ UNCHANGED interVars
                                   /\ UNCHANGED <<departed, added, scenario, unitVars, simVars, halVars>>

Peek == QueuePeek /\ UNCHANGED interVars /\ UNCHANGED <<departed, added, scenario, unitVars, simVars, halVars>>

QueueNext == Enqueue \/ Dequeue \/ Peek

QueueSpec == Init /\ [][QueueNext]_vars

(***************************************************************************)
(* The caller of the controller, as in test_controller.c: it builds an     *)
(* Intersection by hand (current_phase, vehicles stamped with step_count,  *)
(* step_count advanced without serving anybody) and asks for scores and    *)
(* decisions.  A result is kept until the caller's next call.              *)
(***************************************************************************)
\* One movement per lane kind and axis: straight from North, South and East,
\* right from South, left from North and West.
ControllerInputs ==
    { <<ROAD_NORTH, ROAD_SOUTH>>, <<ROAD_SOUTH, ROAD_NORTH>>, <<ROAD_SOUTH, ROAD_EAST>>,
      <<ROAD_EAST, ROAD_WEST>>, <<ROAD_NORTH, ROAD_EAST>>, <<ROAD_WEST, ROAD_NORTH>> }

\* The controller never reads Vehicle.id; the caller uses one id for all.
ControllerId == 1

ControllerAdd ==
    \E in \in ControllerInputs :
        /\ IF added < MaxControllerVehicles THEN TRUE ELSE MustReject(in[1], in[2])
        /\ intersection_add_vehicle(in[1], in[2], ControllerId)
        /\ added' = IF call'.ret THEN added + 1 ELSE added
        /\ last_decision' = NoDecision
        /\ last_score' = NoScore
        /\ UNCHANGED <<scenario, queueVars, simVars, halVars, mv_log, light, light_set>>

\* inter.current_phase = phase
ControllerSetPhase ==
    \E phase \in Phases :
        /\ current_phase' = phase
        /\ call' = [op |-> "set_current_phase", args |-> <<phase>>,
                    mv |-> MOVE_INVALID, ret |-> TRUE]
        /\ last_decision' = NoDecision
        /\ last_score' = NoScore
        /\ UNCHANGED <<roads, lights, phase_steps_remaining, in_yellow_transition,
                       step_count, activation, departed, added, scenario, queueVars, simVars, halVars,
                       mv_log, light, light_set>>

\* inter.step_count = step_count + 1: a step passes and nobody is served.
ControllerWait ==
    /\ step_count < MaxControllerSteps
    /\ step_count' = (step_count + 1) % UINT32
    /\ call' = [op |-> "set_step_count", args |-> <<step_count'>>,
                mv |-> MOVE_INVALID, ret |-> TRUE]
    /\ last_decision' = NoDecision
    /\ last_score' = NoScore
    /\ UNCHANGED <<roads, lights, current_phase, phase_steps_remaining,
                   in_yellow_transition, activation, departed, added, scenario, queueVars, simVars, halVars,
                   mv_log, light, light_set>>

ControllerScore ==
    \E phase \in Phases :
        /\ last_score' = [phase |-> phase,
                          score |-> controller_phase_score(roads, step_count, phase)]
        /\ call' = [op |-> "controller_phase_score", args |-> <<phase>>,
                    mv |-> MOVE_INVALID, ret |-> TRUE]
        /\ last_decision' = NoDecision
        /\ UNCHANGED <<interVars, departed, added, scenario, queueVars, simVars, halVars,
                       mv_log, light, light_set>>

ControllerDecide ==
    /\ last_decision' = controller_next_phase(roads, step_count, current_phase)
    /\ call' = [op |-> "controller_next_phase", args |-> <<>>,
                mv |-> MOVE_INVALID, ret |-> TRUE]
    /\ last_score' = NoScore
    /\ UNCHANGED <<interVars, departed, added, scenario, queueVars, simVars, halVars,
                   mv_log, light, light_set>>

ControllerNext ==
    \/ ControllerAdd
    \/ ControllerSetPhase
    \/ ControllerWait
    \/ ControllerScore
    \/ ControllerDecide

ControllerSpec == Init /\ [][ControllerNext]_vars

(***************************************************************************)
(* The caller of test_duration_*: it loads the lanes of the North-South    *)
(* axis, and East's straight lane, before any step, up to their capacity,  *)
(* and asks for a decision.                                                *)
(***************************************************************************)
LoadInputs ==
    { <<ROAD_NORTH, ROAD_SOUTH>>, <<ROAD_NORTH, ROAD_WEST>>,
      <<ROAD_SOUTH, ROAD_NORTH>>, <<ROAD_SOUTH, ROAD_EAST>>, <<ROAD_EAST, ROAD_WEST>> }

LoadAdd ==
    \E in \in LoadInputs :
        /\ intersection_add_vehicle(in[1], in[2], ControllerId)
        /\ last_decision' = NoDecision
        /\ last_score' = NoScore
        /\ UNCHANGED <<added, scenario, queueVars, simVars, halVars, mv_log, light, light_set>>

LoadNext == LoadAdd \/ ControllerSetPhase \/ ControllerDecide

LoadSpec == Init /\ [][LoadNext]_vars

(***************************************************************************)
(* The stand-alone calls of movement_type, as in the movement tests of     *)
(* test_road.c: the caller classifies up to MaxClassify pairs of RoadDir.  *)
(***************************************************************************)
Classify ==
    \E start \in RoadDir, end \in RoadDir :
        /\ Len(mv_log) < MaxClassify
        /\ mv_log' = Append(mv_log, [args |-> <<start, end>>,
                                     mv   |-> movement_type(start, end)])
        /\ call' = [op |-> "movement_type", args |-> <<start, end>>,
                    mv |-> movement_type(start, end), ret |-> TRUE]
        /\ UNCHANGED <<interVars, departed, added, scenario, queueVars, simVars, halVars,
                       light, light_set, last_decision, last_score>>

MovementNext == Classify

MovementSpec == Init /\ [][MovementNext]_vars

(***************************************************************************)
(* The calls on a stand-alone TrafficLight.  A RED light is activated with *)
(* any uint8_t duration; a light that is not RED is activated again as     *)
(* apply_phase does it, with a duration of the controller.                 *)
(***************************************************************************)
\* uint8_t duration
Durations == 0 .. (UINT8 - 1)

\* The durations controller_next_phase produces.
GreenSteps == MIN_GREEN_STEPS .. MAX_GREEN_STEPS

LightSetGreen(arrow, duration) ==
    /\ light.state # LIGHT_RED => duration \in GreenSteps
    /\ light' = IF arrow THEN traffic_light_set_green_arrow(light, duration)
                 ELSE traffic_light_set_green(light, duration)
    /\ light_set' = [from |-> light.state, duration |-> duration, ticks |-> 0,
                     set |-> TRUE]
    /\ call' = [op |-> IF arrow THEN "traffic_light_set_green_arrow"
                       ELSE "traffic_light_set_green",
                args |-> <<duration>>, mv |-> MOVE_INVALID, ret |-> TRUE]

LightTick ==
    /\ light_set.ticks < light_set.duration + YELLOW_STEPS + MaxRedTicks
    /\ light' = traffic_light_tick(light)
    /\ light_set' = [light_set EXCEPT !.ticks = light_set.ticks + 1]
    /\ call' = [op |-> "traffic_light_tick", args |-> <<>>, mv |-> MOVE_INVALID,
                ret |-> TRUE]

SetGreen ==
    \E duration \in Durations :
        /\ LightSetGreen(FALSE, duration)
        /\ UNCHANGED <<interVars, departed, added, scenario, queueVars, simVars, halVars,
                       mv_log, last_decision, last_score>>

SetGreenArrow ==
    \E duration \in Durations :
        /\ LightSetGreen(TRUE, duration)
        /\ UNCHANGED <<interVars, departed, added, scenario, queueVars, simVars, halVars,
                       mv_log, last_decision, last_score>>

Tick ==
    /\ LightTick
    /\ UNCHANGED <<interVars, departed, added, scenario, queueVars, simVars, halVars,
                   mv_log, last_decision, last_score>>

LightNext == SetGreen \/ SetGreenArrow \/ Tick

LightSpec == Init /\ [][LightNext]_vars

(***************************************************************************)
(* Properties of the lights.                                               *)
(***************************************************************************)
\* The roads whose light permits movement.
GreenRoads(lts) == { r \in Roads : traffic_light_is_green(lts[r]) }

\* The road set of a phase.
PhaseRoads(phase) ==
    { PHASE_INFO[phase].roads[r] : r \in 1 .. PHASE_INFO[phase].road_count }

NorthSouth == {ROAD_NORTH, ROAD_SOUTH}
EastWest == {ROAD_EAST, ROAD_WEST}

Conflict(lts) ==
    /\ GreenRoads(lts) \cap NorthSouth # {}
    /\ GreenRoads(lts) \cap EastWest # {}

\* C1: no light of the North/South axis is GREEN or GREEN_ARROW while a light
\* of the East/West axis is, neither between two calls nor at the release
\* stage of the step that follows (after the phase has been applied).
C1_NoConflictingGreens == ~Conflict(lights) /\ ~Conflict(LightsAtRelease)

\* C1 witness: a phase of the other axis is being applied while the lights of
\* the previous phase are still lit (YELLOW).
C1_Witness ==
    /\ StepDecides
    /\ \E r \in Roads : lights[r].state = LIGHT_YELLOW /\ r \notin PhaseRoads(StepDecision.phase)
    /\ PhaseRoads(current_phase) \subseteq NorthSouth
    /\ PhaseRoads(StepDecision.phase) \subseteq EastWest
    /\ GreenRoads(LightsAtRelease) # {}

\* C2 as stated: in every reachable state the green roads are the road set of
\* a phase.
C2_Original == \E p \in Phases : GreenRoads(lights) = PhaseRoads(p)

\* C2 amended: between calls the green roads are the road set of the current
\* phase or, before the first step and after the last step of a phase, no road
\* at all; at the release stage of a step they are exactly the road set of the
\* current phase.
C2_GreenRoadsOfOnePhase ==
    /\ GreenRoads(lights) = IF phase_steps_remaining > 0 THEN PhaseRoads(current_phase) ELSE {}
    /\ GreenRoads(LightsAtRelease) = PhaseRoads(PhaseAtRelease)

\* C2 witness: a phase has run to its last step and no road is green.
C2_Witness ==
    /\ call.op = "step"
    /\ phase_steps_remaining = 0
    /\ GreenRoads(lights) = {}
    /\ \E r \in Roads : lights[r].state = LIGHT_YELLOW

(***************************************************************************)
(* Properties of the calls on the intersection.                            *)
(***************************************************************************)
\* The steps a waiting vehicle has waited.
WaitOf(v) == (step_count - v.enqueue_step) % UINT32

\* The longest wait under the busy caller: each of the other MaxWaiting - 1
\* vehicles in flight holds a vehicle back for at most one minimal green, the
\* last of them departs in the step before its own.
WaitBound == MIN_GREEN_STEPS * (MaxWaiting - 1) - 1

\* C3: no starvation.  While the busy caller keeps vehicles arriving on the
\* lane of the other phase, no vehicle waits longer than WaitBound steps:
\* every accepted vehicle is in the departure list of a step at most
\* WaitBound steps after the one that follows its arrival.
C3_NoStarvation ==
    \A r \in Roads, l \in Lanes :
        \A i \in 1 .. roads[r][l].count : WaitOf(Content(roads[r][l])[i]) <= WaitBound

\* C3 witness: a vehicle that was passed over by phase decisions departs
\* after WaitBound steps of waiting, while a vehicle of the other phase waits.
C3_Witness ==
    /\ call.op = "step"
    /\ \E i \in 1 .. Len(departed) :
          /\ (step_count - 1 - departed[i].enqueue_step) % UINT32 = WaitBound
          /\ \E r \in Roads, l \in Lanes :
                /\ roads[r][l].count > 0
                /\ l # lane_for_movement(departed[i].movement)

Ids(vs) == [i \in 1 .. Len(vs) |-> vs[i].id]

\* C4: test_spec_example, call by call: after v1 (south to north) and v2 (north
\* to south) the first step departs both; the second step departs nothing and
\* NS stays the current phase; after v3 and v4 (west to south) the third step
\* switches to EW and departs exactly v3; the fourth step departs exactly v4.
C4_SpecExample ==
    /\ scenario = 3 => Len(departed) = 2 /\ {departed[1].id, departed[2].id} = {1, 2}
    /\ scenario = 4 => departed = <<>> /\ current_phase = PHASE_NS
    /\ scenario \in {5, 6} => current_phase = PHASE_NS
    /\ scenario = 7 => current_phase = PHASE_EW /\ Ids(departed) = <<3>>
    /\ scenario = 8 => Ids(departed) = <<4>>

\* C4 witness: the caller has made all the calls of the test.
C4_Witness == scenario = Len(test_spec_example) /\ step_count = 4 /\ added = 4

\* C5: intersection_add_vehicle with start = end, or with the sentinel as start
\* or end, returns false and leaves the whole Intersection unchanged.
C5_InvalidMovementRejected ==
    [][\A in \in AddInputs :
         (Unroutable(in[1], in[2]) /\ intersection_add_vehicle(in[1], in[2], added + 1))
            => (call'.ret = FALSE /\ UNCHANGED interVars)]_vars

\* C5 witness: a U-turn or sentinel call was rejected while vehicles wait and
\* a phase is running.
C5_Witness ==
    /\ call.op = "add_vehicle" /\ call.mv = MOVE_INVALID /\ call.ret = FALSE
    /\ phase_steps_remaining > 0
    /\ \E r \in Roads, l \in Lanes : roads[r][l].count > 0

\* C6: when the lane of a valid movement holds MAX_VEHICLES_PER_LANE vehicles,
\* intersection_add_vehicle returns false and nothing of the Intersection
\* changes (the full lane keeps its vehicles in their order).
C6_FullLaneRejected ==
    [][\A in \in AddInputs :
         (/\ ~Unroutable(in[1], in[2])
          /\ LaneIsFull(in[1], LaneOf(in[1], in[2]))
          /\ intersection_add_vehicle(in[1], in[2], added + 1))
            => (call'.ret = FALSE /\ UNCHANGED interVars)]_vars

\* C6 witness: a valid movement was rejected, its lane is full.
C6_Witness ==
    /\ call.op = "add_vehicle" /\ call.mv # MOVE_INVALID /\ call.ret = FALSE
    /\ \E r \in Roads, l \in Lanes : LaneIsFull(r, l)

(***************************************************************************)
(* Properties of the VehicleQueue.                                         *)
(***************************************************************************)
Slots == 0 .. (MAX_VEHICLES_PER_LANE - 1)

\* C7: 0 <= count <= MAX_VEHICLES_PER_LANE, and head and tail are valid indices.
C7_QueueBounds ==
    /\ q.count \in 0 .. MAX_VEHICLES_PER_LANE
    /\ q.head \in Slots
    /\ q.tail \in Slots

\* C7 witness: the queue is full and its head and tail have wrapped.
C7_Witness ==
    /\ q.count = MAX_VEHICLES_PER_LANE
    /\ Len(deq_log) > MAX_VEHICLES_PER_LANE
    /\ q.head > 0

\* C8: queue_enqueue on a full queue returns false and leaves count, head, tail
\* and the stored vehicles as they were.
C8_EnqueueFullUnchanged ==
    [][\A v \in QueueVehicles :
         (q.count = MAX_VEHICLES_PER_LANE /\ QueueEnqueue(v))
            => (call'.ret = FALSE /\ q' = q)]_vars

\* C8 witness: an enqueue was refused by a full queue holding other vehicles.
C8_Witness ==
    /\ call.op = "queue_enqueue" /\ call.ret = FALSE
    /\ q.count = MAX_VEHICLES_PER_LANE

\* C9: the vehicles handed out by queue_dequeue are, in order, the vehicles
\* accepted by queue_enqueue, and the queue holds the rest in the same order.
C9_Fifo ==
    /\ Len(deq_log) <= Len(enq_log)
    /\ \A i \in 1 .. Len(deq_log) : deq_log[i].seen => deq_log[i].v = enq_log[i]
    /\ Content(q) = SubSeq(enq_log, Len(deq_log) + 1, Len(enq_log))

\* C9 witness: a vehicle enqueued after tail wrapped has been handed out after
\* head wrapped, and it differs from the vehicle before it.
C9_Witness ==
    /\ Len(deq_log) > MAX_VEHICLES_PER_LANE
    /\ deq_log[Len(deq_log)].seen
    /\ deq_log[Len(deq_log)].v # enq_log[Len(deq_log) - 1]
    /\ call.op = "queue_dequeue"

\* C10: queue_dequeue and queue_peek on an empty queue return false and change
\* neither the queue nor *out; queue_peek on a non-empty queue returns the
\* front vehicle and changes nothing of the queue.
C10_EmptyAndPeek ==
    [][/\ (q.count = 0 /\ (Dequeue \/ Peek))
            => (call'.ret = FALSE /\ q' = q /\ out' = out)
       /\ (q.count > 0 /\ Peek)
            => (call'.ret = TRUE /\ q' = q /\ out' = enq_log[Len(deq_log) + 1])]_vars

\* C10 witness: a dequeue on the emptied queue failed and *out still holds the
\* vehicle of an earlier call.
C10_Witness ==
    /\ call.op = "queue_dequeue" /\ call.ret = FALSE
    /\ out # NoVehicle
    /\ Len(enq_log) > 0

(***************************************************************************)
(* Properties of the movement classification.                              *)
(***************************************************************************)
\* The right-hand-traffic table of road.h and the README, by compass
\* direction: a driver entering from start and heading across the junction
\* has the road listed under RIGHT on the right hand.
RightHandTraffic(start, end) ==
    CASE <<start, end>> \in { <<ROAD_NORTH, ROAD_SOUTH>>, <<ROAD_SOUTH, ROAD_NORTH>>,
                              <<ROAD_EAST, ROAD_WEST>>, <<ROAD_WEST, ROAD_EAST>> } -> MOVE_STRAIGHT
      [] <<start, end>> \in { <<ROAD_NORTH, ROAD_WEST>>, <<ROAD_SOUTH, ROAD_EAST>>,
                              <<ROAD_EAST, ROAD_NORTH>>, <<ROAD_WEST, ROAD_SOUTH>> } -> MOVE_RIGHT
      [] <<start, end>> \in { <<ROAD_NORTH, ROAD_EAST>>, <<ROAD_SOUTH, ROAD_WEST>>,
                              <<ROAD_EAST, ROAD_SOUTH>>, <<ROAD_WEST, ROAD_NORTH>> } -> MOVE_LEFT
      [] OTHER -> MOVE_INVALID

\* C11: movement_type returns the entry of the right-hand-traffic table for
\* the 12 pairs of distinct roads and MOVE_INVALID for a U-turn and whenever
\* an argument is ROAD_NONE.
C11_MovementTable ==
    \A i \in 1 .. Len(mv_log) :
        mv_log[i].mv = RightHandTraffic(mv_log[i].args[1], mv_log[i].args[2])

\* C11 witness: a right turn, then a left turn or a rejected pair, were classified.
C11_Witness ==
    /\ Len(mv_log) = MaxClassify
    /\ mv_log[1] = [args |-> <<ROAD_EAST, ROAD_NORTH>>, mv |-> MOVE_RIGHT]
    /\ mv_log[Len(mv_log)].mv \in {MOVE_LEFT, MOVE_INVALID}


(***************************************************************************)
(* Properties of the routing of vehicles to lanes.                         *)
(***************************************************************************)
\* The vehicle at the back of a queue.
Back(qu) == Content(qu)[qu.count]

\* A vehicle waits in the lane of its cached movement, and its destination,
\* when it has one, is the one that movement leads to from this road.
InItsLane(v, road, lane) ==
    /\ v.movement # MOVE_INVALID
    /\ lane_for_movement(v.movement) = lane
    /\ v.end_road # ROAD_NONE => RightHandTraffic(road, v.end_road) = v.movement

\* An accepted call put its vehicle at the back of lane `lane` of road `road`
\* and left the other lanes alone.
AddedTo(road, lane) ==
    /\ roads'[road][lane].count = roads[road][lane].count + 1
    /\ Back(roads'[road][lane]).id = added + 1
    /\ \A r \in Roads, l \in Lanes : <<r, l>> # <<road, lane>> => roads'[r][l] = roads[r][l]

\* C12: every waiting vehicle is in the lane of its cached movement, on the
\* road it was added with as start road; intersection_add_vehicle puts the
\* vehicle in the lane of the movement from start to end, and
\* intersection_add_vehicle_by_lane in the lane it is given.
C12_VehiclesInTheirLane ==
    /\ [](\A r \in Roads, l \in Lanes :
            \A i \in 1 .. roads[r][l].count : InItsLane(Content(roads[r][l])[i], r, l))
    /\ [][ /\ (call'.op = "add_vehicle" /\ call'.ret)
              => AddedTo(call'.args[1], LaneOf(call'.args[1], call'.args[2]))
           /\ (call'.op = "add_vehicle_by_lane" /\ call'.ret)
              => AddedTo(call'.args[1], call'.args[2]) ]_vars

\* C12 witness: a vehicle added by lane waits in East's straight lane and a
\* vehicle added by (start, end) has just joined West's right-turn lane.
C12_Witness ==
    /\ call.op = "add_vehicle" /\ call.ret /\ call.args = <<ROAD_WEST, ROAD_SOUTH>>
    /\ roads[ROAD_WEST][LANE_RIGHT].count = 1
    /\ roads[ROAD_EAST][LANE_STRAIGHT].count = 1
    /\ Content(roads[ROAD_EAST][LANE_STRAIGHT])[1].end_road = ROAD_NONE


(***************************************************************************)
(* Properties of the stand-alone light.                                    *)
(***************************************************************************)
\* C13: a RED light set green (or green arrow) with a duration N in 1 .. 255
\* is green before each of the first N ticks and YELLOW right after the N-th
\* tick: it is not yet YELLOW after N - 1 ticks and it did not wait for tick
\* N + 1.
C13_GreenForDuration ==
    (light_set.set /\ light_set.from = LIGHT_RED /\ light_set.duration \in 1 .. 255)
    => /\ light_set.ticks < light_set.duration => traffic_light_is_green(light)
       /\ light_set.ticks = light_set.duration => light.state = LIGHT_YELLOW

\* C13 witness: a light set green from RED for the longest duration has just
\* turned YELLOW, on its 255th tick.
C13_Witness ==
    /\ light_set.set /\ light_set.from = LIGHT_RED
    /\ light_set.duration = 255 /\ light_set.ticks = 255
    /\ light.state = LIGHT_YELLOW

\* The tick on which an activated light turns YELLOW.
TurnsYellowAt == IF light_set.duration = 0 THEN 1 ELSE light_set.duration

\* C14: a light that turned YELLOW stays YELLOW for exactly YELLOW_STEPS
\* ticks and is RED with steps_remaining 0 from then on; traffic_light_tick
\* leaves a RED light as it is.
C14_YellowThenRed ==
    /\ [](light_set.set =>
            /\ (light_set.ticks >= TurnsYellowAt
                  /\ light_set.ticks < TurnsYellowAt + YELLOW_STEPS)
               => light.state = LIGHT_YELLOW
            /\ light_set.ticks >= TurnsYellowAt + YELLOW_STEPS
               => light = [state |-> LIGHT_RED, steps_remaining |-> 0])
    /\ [][(light.state = LIGHT_RED /\ call'.op = "traffic_light_tick")
            => light' = light]_vars

\* C14 witness: the light went through YELLOW and has been ticked on RED.
C14_Witness ==
    /\ light_set.set /\ light_set.duration = MIN_GREEN_STEPS
    /\ light_set.ticks = light_set.duration + YELLOW_STEPS + MaxRedTicks
    /\ light.state = LIGHT_RED
    /\ call.op = "traffic_light_tick"


(***************************************************************************)
(* Properties of the controller.                                           *)
(***************************************************************************)
\* The lanes each phase serves (types.h, controller.h): straight and right
\* of both roads of an axis, or the left-turn lane of one road.
ServedBy(phase) ==
    CASE phase = PHASE_NS      -> {ROAD_NORTH, ROAD_SOUTH} \X {LANE_STRAIGHT, LANE_RIGHT}
      [] phase = PHASE_EW      -> {ROAD_EAST, ROAD_WEST} \X {LANE_STRAIGHT, LANE_RIGHT}
      [] phase = PHASE_N_ARROW -> {<<ROAD_NORTH, LANE_LEFT>>}
      [] phase = PHASE_S_ARROW -> {<<ROAD_SOUTH, LANE_LEFT>>}
      [] phase = PHASE_E_ARROW -> {<<ROAD_EAST, LANE_LEFT>>}
      [] phase = PHASE_W_ARROW -> {<<ROAD_WEST, LANE_LEFT>>}

\* lane_count * (1 + step_count - enqueue_step of the front vehicle), over the integers.
LaneScore(rds, steps, road, lane) ==
    IF rds[road][lane].count = 0 THEN 0
    ELSE rds[road][lane].count * (1 + steps - Content(rds[road][lane])[1].enqueue_step)

RECURSIVE SumOfLaneScores(_, _, _)
SumOfLaneScores(rds, steps, lanes) ==
    IF lanes = {} THEN 0
    ELSE LET x == CHOOSE y \in lanes : TRUE
         IN  LaneScore(rds, steps, x[1], x[2]) + SumOfLaneScores(rds, steps, lanes \ {x})

IsEmptyIntersection == \A r \in Roads, l \in Lanes : roads[r][l].count = 0

\* C15: controller_phase_score is the sum of count * (1 + wait of the front
\* vehicle) over the lanes the phase serves: every phase scores 0 on an empty
\* intersection and lanes the phase does not serve do not contribute.
C15_PhaseScore ==
    /\ \A phase \in Phases :
          controller_phase_score(roads, step_count, phase)
              = SumOfLaneScores(roads, step_count, ServedBy(phase))
    /\ call.op = "controller_phase_score" =>
          /\ last_score.score = SumOfLaneScores(roads, step_count, ServedBy(last_score.phase))
          /\ IsEmptyIntersection => last_score.score = 0

\* C15 witness: PHASE_NS was scored with a waiting vehicle in a lane it serves
\* and vehicles in lanes it does not serve.
C15_Witness ==
    /\ call.op = "controller_phase_score" /\ last_score.phase = PHASE_NS
    /\ last_score.score = 1 + MaxControllerSteps
    /\ roads[ROAD_NORTH][LANE_LEFT].count > 0
    /\ roads[ROAD_EAST][LANE_STRAIGHT].count > 0

\* A phase has somebody waiting in a lane it serves.
ServesWaiting(rds, phase) == \E x \in ServedBy(phase) : rds[x[1]][x[2]].count > 0

\* One more vehicle in a lane the phase serves that was not empty, nothing else changed.
OneMoreBehind(phase) ==
    \E x \in ServedBy(phase) :
        /\ roads[x[1]][x[2]].count > 0
        /\ roads'[x[1]][x[2]].count = roads[x[1]][x[2]].count + 1
        /\ \A r \in Roads, l \in Lanes : <<r, l>> # x => roads'[r][l] = roads[r][l]

\* C16: the score of a phase that serves a non-empty lane strictly increases
\* when step_count increases and the queues stay the same, and when one more
\* vehicle joins a non-empty lane the phase serves.
C16_ScoreMonotonic ==
    [][\A phase \in Phases :
        /\ (roads' = roads /\ step_count' > step_count /\ ServesWaiting(roads, phase))
           => controller_phase_score(roads', step_count', phase)
                > controller_phase_score(roads, step_count, phase)
        /\ (step_count' = step_count /\ OneMoreBehind(phase))
           => controller_phase_score(roads', step_count', phase)
                > controller_phase_score(roads, step_count, phase)]_vars

\* C16 witness: a second vehicle joined North's straight lane after the first
\* had waited through a step.
C16_Witness ==
    /\ call.op = "add_vehicle" /\ call.ret
    /\ roads[ROAD_NORTH][LANE_STRAIGHT].count = 2
    /\ Content(roads[ROAD_NORTH][LANE_STRAIGHT])[1].enqueue_step < step_count
    /\ Content(roads[ROAD_NORTH][LANE_STRAIGHT])[2].enqueue_step = step_count


\* The score of a phase in the current state, over the integers.
ScoreOf(phase) == SumOfLaneScores(roads, step_count, ServedBy(phase))

\* C17: the phase controller_next_phase returns has the maximum score of all
\* phases; a phase that scores strictly higher than every other phase is the
\* one returned, whatever the current phase.
C17_BestPhaseChosen ==
    call.op = "controller_next_phase" =>
        /\ \A p \in Phases : ScoreOf(last_decision.phase) >= ScoreOf(p)
        /\ \A p \in Phases :
              (\A o \in Phases \ {p} : ScoreOf(p) > ScoreOf(o)) => last_decision.phase = p

\* C17 witness: the controller left a current phase with waiting vehicles for
\* the one phase that scores higher than all others, and a third phase scores too.
C17_Witness ==
    /\ call.op = "controller_next_phase"
    /\ last_decision.phase # current_phase
    /\ ScoreOf(current_phase) > 0
    /\ \A o \in Phases \ {last_decision.phase} : ScoreOf(last_decision.phase) > ScoreOf(o)
    /\ \E o \in Phases \ {last_decision.phase, current_phase} : ScoreOf(o) > 0

\* C18: when the current phase's score equals the maximum, the current phase
\* is returned (on an empty intersection too); another phase is returned only
\* with a score strictly greater than the current phase's.
C18_TieKeepsCurrent ==
    call.op = "controller_next_phase" =>
        /\ (\A p \in Phases : ScoreOf(current_phase) >= ScoreOf(p))
           => last_decision.phase = current_phase
        /\ last_decision.phase # current_phase
           => ScoreOf(last_decision.phase) > ScoreOf(current_phase)

\* C18 witness: the current phase, not the first of the table, ties with a
\* phase before it at a positive score and is kept.
C18_Witness ==
    /\ call.op = "controller_next_phase"
    /\ last_decision.phase = current_phase
    /\ ScoreOf(current_phase) > 0
    /\ \E p \in Phases : p < current_phase /\ ScoreOf(p) = ScoreOf(current_phase)


\* The number of vehicles in the lanes a phase serves, over the integers.
RECURSIVE VehiclesIn(_)
VehiclesIn(lanes) ==
    IF lanes = {} THEN 0
    ELSE LET x == CHOOSE y \in lanes : TRUE
         IN  roads[x[1]][x[2]].count + VehiclesIn(lanes \ {x})

Clamp(n, lo, hi) == IF n < lo THEN lo ELSE IF n > hi THEN hi ELSE n

\* C19: the duration of a decision is the number of vehicles in the lanes of
\* the chosen phase, clamped to MIN_GREEN_STEPS .. MAX_GREEN_STEPS, for every
\* content the lanes can hold.
C19_DurationClamped ==
    call.op = "controller_next_phase" =>
        last_decision.duration
            = Clamp(VehiclesIn(ServedBy(last_decision.phase)),
                    MIN_GREEN_STEPS, MAX_GREEN_STEPS)


(***************************************************************************)
(* Properties of the step.                                                 *)
(***************************************************************************)
\* The vehicle is in the caller's departed[] after the step.
Departs(v) == \E i \in 1 .. Len(departed') : departed'[i] = v

\* C20: a step that finds the phase exhausted decides on the queues as they
\* are, the vehicles accepted since the previous step included (the phase it
\* activates has the highest score of the current queues, and the current
\* phase is kept on a tie), and serves in that same step: the front vehicle of
\* every non-empty lane of the activated phase departs and the lights of the
\* phase are green during the step, with no all-red step in between.
C20_DecisionSeesAddsAndServes ==
    [][(call'.op = "step" /\ phase_steps_remaining = 0) =>
          /\ \A p \in Phases : ScoreOf(current_phase') >= ScoreOf(p)
          /\ current_phase' # current_phase
             => ScoreOf(current_phase') > ScoreOf(current_phase)
          /\ \A x \in ServedBy(current_phase') :
                roads[x[1]][x[2]].count > 0 =>
                   /\ Departs(Content(roads[x[1]][x[2]])[1])
                   /\ roads'[x[1]][x[2]].count = roads[x[1]][x[2]].count - 1
          /\ GreenRoads(LightsAtRelease) = PhaseRoads(current_phase')
          /\ GreenRoads(LightsAtRelease) # {} ]_vars

\* C20 witness: the third step switched from North-South to East-West for a
\* vehicle accepted after the second step, and that vehicle left in that step.
C20_Witness ==
    /\ call.op = "step" /\ step_count = MIN_GREEN_STEPS + 1
    /\ current_phase = PHASE_EW
    /\ Len(departed) = 1
    /\ departed[1].enqueue_step = MIN_GREEN_STEPS
    /\ departed[1].movement = MOVE_RIGHT


(***************************************************************************)
(* A caller that watches phases run out: straight and right-turning        *)
(* vehicles from North and straight vehicles from South (three lanes of    *)
(* PHASE_NS, so that a phase can get more than MIN_GREEN_STEPS) and        *)
(* right-turning vehicles from West, added at any time, also while a phase *)
(* is running.                                                             *)
(***************************************************************************)
PhaseInputs ==
    { <<ROAD_NORTH, ROAD_SOUTH>>, <<ROAD_NORTH, ROAD_WEST>>,
      <<ROAD_SOUTH, ROAD_NORTH>>, <<ROAD_WEST, ROAD_SOUTH>> }

PhaseAdd ==
    \E in \in PhaseInputs :
        /\ added < MaxPhaseVehicles
        /\ intersection_add_vehicle(in[1], in[2], added + 1)
        /\ added' = IF call'.ret THEN added + 1 ELSE added
        /\ UNCHANGED scenario
        /\ UNCHANGED <<queueVars, unitVars, simVars, halVars>>

PhaseStep ==
    /\ step_count < MaxPhaseSteps
    /\ intersection_step
    /\ UNCHANGED <<added, scenario>>
    /\ UNCHANGED <<queueVars, unitVars, simVars, halVars>>

PhaseNext == PhaseAdd \/ PhaseStep

PhaseSpec == Init /\ [][PhaseNext]_vars

\* Steps taken since the start of the step that applied the last decision.
ActiveFor == step_count - activation.step

\* A vehicle was added after the last decision was applied and still waits.
AddedSinceActivation ==
    \E r \in Roads, l \in Lanes :
        \E i \in 1 .. roads[r][l].count :
            Content(roads[r][l])[i].enqueue_step > activation.step

(***************************************************************************)
(* C21: a phase activated with duration d, MIN_GREEN_STEPS <= d <=         *)
(* MAX_GREEN_STEPS, stays the current phase for exactly d consecutive      *)
(* steps: after k steps of the phase (the activating one included) the     *)
(* phase is still current and d - k steps remain, and the controller is    *)
(* consulted again, and current_phase can change, only in a step that      *)
(* starts with phase_steps_remaining = 0, which is the d-th step after the *)
(* activating one, whatever vehicles are added in between.                 *)
(***************************************************************************)
C21_PhaseHeldForDuration ==
    /\ [](activation # NoActivation =>
            /\ activation.duration \in MIN_GREEN_STEPS .. MAX_GREEN_STEPS
            /\ current_phase = activation.phase
            /\ ActiveFor \in 1 .. activation.duration
            /\ phase_steps_remaining = activation.duration - ActiveFor)
    /\ [][(activation' # activation \/ current_phase' # current_phase) =>
            /\ phase_steps_remaining = 0
            /\ activation # NoActivation =>
                   step_count = activation.step + activation.duration]_vars

\* A phase of three steps has run out, with a vehicle added while it ran.
C21_Witness ==
    /\ activation.duration > MIN_GREEN_STEPS
    /\ ActiveFor = activation.duration
    /\ phase_steps_remaining = 0
    /\ AddedSinceActivation


\* The step that is being taken is an intersection_step.
IsStep == step_count' # step_count

\* The non-empty lanes the phase of this step serves.
ReleasingLanes ==
    { rl \in ServedBy(current_phase') : roads[rl[1]][rl[2]].count > 0 }

FrontLane(v) ==
    CHOOSE rl \in Roads \X Lanes :
        /\ roads[rl[1]][rl[2]].count > 0
        /\ Head(Content(roads[rl[1]][rl[2]])) = v

\* Road-then-lane order: North before South, East before West, and within a
\* road the straight lane before the right-turn lane.
LaneRank(lane) ==
    CASE lane = LANE_STRAIGHT -> 1
      [] lane = LANE_RIGHT    -> 2
      [] lane = LANE_LEFT     -> 3

RoadRank(road) ==
    CASE road = ROAD_NORTH -> 1
      [] road = ROAD_SOUTH -> 2
      [] road = ROAD_EAST  -> 3
      [] road = ROAD_WEST  -> 4

Precedes(a, b) ==
    IF a[1] = b[1] THEN LaneRank(a[2]) < LaneRank(b[2])
    ELSE RoadRank(a[1]) < RoadRank(b[1])

Opposite(road) ==
    CASE road = ROAD_NORTH -> ROAD_SOUTH
      [] road = ROAD_SOUTH -> ROAD_NORTH
      [] road = ROAD_EAST  -> ROAD_WEST
      [] road = ROAD_WEST  -> ROAD_EAST

\* The two opposing roads an arrow phase is documented to serve.
ArrowRoads(phase) ==
    { PHASE_INFO[phase].roads[1], Opposite(PHASE_INFO[phase].roads[1]) }

(***************************************************************************)
(* C24: each arrow phase serves both opposing roads simultaneously: a step *)
(* of an arrow phase releases the front of the left-turn lane of both      *)
(* roads of its axis (one left-turn vehicle on North and one on South      *)
(* leave in a single step).                                                *)
(***************************************************************************)
C24_ArrowServesBothRoads ==
    [][(IsStep /\ PHASE_INFO[current_phase'].is_arrow) =>
        \A r \in ArrowRoads(current_phase') :
            roads[r][LANE_LEFT].count > 0 =>
                \E i \in 1 .. Len(departed') :
                    departed'[i] = Head(Content(roads[r][LANE_LEFT]))]_vars


(***************************************************************************)
(* C25: the protocol only ever activates RED lights: whenever              *)
(* intersection_step applies a phase decision, every light it sets green   *)
(* is RED at that moment, never YELLOW, GREEN or GREEN_ARROW, also when    *)
(* the same phase is selected again.                                       *)
(***************************************************************************)
C25_ActivatesRedLights ==
    [][(IsStep /\ StepDecides) =>
        \A r \in PhaseRoads(StepDecision.phase) : lights[r].state = LIGHT_RED]_vars


(***************************************************************************)
(* simulation.c: the embedded loop.  One simulation_tick polls the twelve  *)
(* sensors in road-then-lane order, enqueues on every rising edge, takes   *)
(* one intersection_step and drives the lights.                            *)
(***************************************************************************)
\* The position of a sensor in the polling loop: road-major, lane-minor.
PollIndex(lane) == lane[1] * LANES_PER_ROAD + lane[2]

\* Stage 1 of simulation_tick; reading is the set of lanes for which
\* hal->sense_lane returns true in this tick.  The lanes with a rising edge get
\* the next ids in polling order, and each is enqueued on its own lane.
poll_sensors(rds, prev, counter, reading) ==
    LET edges    == { lane \in Roads \X Lanes : lane \in reading /\ ~prev[lane[1]][lane[2]] }
        id(lane) == (counter + Cardinality({ e \in edges : PollIndex(e) <= PollIndex(lane) }))
                        % UINT32
        res(lane) == queue_enqueue(rds[lane[1]][lane[2]],
                                   Vehicle(id(lane), ROAD_NONE, lane_to_movement(lane[2]),
                                           step_count))
    IN  [roads           |-> [r \in Roads |-> [l \in Lanes |->
                                 IF <<r, l>> \in edges THEN res(<<r, l>>).q ELSE rds[r][l]]],
         prev_sense      |-> [r \in Roads |-> [l \in Lanes |-> <<r, l>> \in reading]],
         vehicle_counter |-> (counter + Cardinality(edges)) % UINT32,
         added           |-> { lane \in edges : res(lane).ret }]

\* intersection_step on the queues rds: the fields of the Intersection after it
\* and departed[].
intersection_step_on(rds) ==
    LET decision == controller_next_phase(rds, step_count, current_phase)
        lts      == IF StepDecides THEN apply_phase(lights, decision) ELSE lights
        phase    == IF StepDecides THEN decision.phase ELSE current_phase
        rem      == IF StepDecides THEN decision.duration ELSE phase_steps_remaining
        rel      == release_from(rds, lts, phase, 1, <<>>)
    IN  [roads                 |-> rel.roads,
         departed              |-> rel.departed,
         lights                |-> [i \in Roads |-> traffic_light_tick(lts[i])],
         current_phase         |-> phase,
         in_yellow_transition  |-> IF StepDecides THEN FALSE ELSE in_yellow_transition,
         phase_steps_remaining |-> IF rem > 0 THEN rem - 1 ELSE rem,
         step_count            |-> (step_count + 1) % UINT32,
         activation            |-> IF StepDecides
                                   THEN [phase    |-> decision.phase,
                                         duration |-> decision.duration,
                                         step     |-> step_count]
                                   ELSE activation]

\* simulation_tick(ctx, hal) with the sensors reading `reading`
simulation_tick(reading) ==
    \E polled \in { poll_sensors(roads, prev_sense, vehicle_counter, reading) } :
    \E after \in { intersection_step_on(polled.roads) } :
        /\ prev_sense' = polled.prev_sense
        /\ vehicle_counter' = polled.vehicle_counter
        /\ sensed' = reading
        /\ tick_added' = polled.added
        /\ roads' = after.roads
        /\ departed' = after.departed
        /\ lights' = after.lights
        /\ current_phase' = after.current_phase
        /\ in_yellow_transition' = after.in_yellow_transition
        /\ phase_steps_remaining' = after.phase_steps_remaining
        /\ step_count' = after.step_count
        /\ activation' = after.activation
        /\ pins' = [r \in Roads |-> {after.lights[r].state}]
        /\ call' = [op |-> "simulation_tick", args |-> <<>>, mv |-> MOVE_INVALID,
                    ret |-> TRUE]

\* The sensor readings of the model: nothing, one lane, the four lanes of
\* PHASE_NS, and these together with the left-turn lane of East or of North.
NorthSouthLanes == {ROAD_NORTH, ROAD_SOUTH} \X {LANE_STRAIGHT, LANE_RIGHT}

Readings ==
    { {}, {<<ROAD_EAST, LANE_LEFT>>}, {<<ROAD_NORTH, LANE_STRAIGHT>>},
      {<<ROAD_NORTH, LANE_STRAIGHT>>, <<ROAD_EAST, LANE_LEFT>>},
      NorthSouthLanes, NorthSouthLanes \cup {<<ROAD_EAST, LANE_LEFT>>},
      NorthSouthLanes \cup {<<ROAD_NORTH, LANE_LEFT>>} }

SimulationTick ==
    \E reading \in Readings :
        /\ step_count < MaxTicks
        /\ simulation_tick(reading)
        /\ UNCHANGED <<added, scenario, queueVars, unitVars, pin_writes, set_call>>

SimulationNext == SimulationTick

SimulationSpec == Init /\ [][SimulationNext]_vars

\* The step that is being taken is a simulation_tick.
IsTick == call'.op = "simulation_tick" /\ step_count' # step_count

\* The sensor of the lane goes from absent to present in this tick; it counts
\* as absent before the first tick.
RisingEdge(lane) == lane \in sensed' /\ lane \notin sensed

(***************************************************************************)
(* C26: simulation_tick enqueues a vehicle on a (road, lane) exactly once  *)
(* per absent-to-present transition of the lane's sensor: in every tick a  *)
(* vehicle is enqueued on exactly the lanes whose sensor read absent in    *)
(* the tick before (or before the first tick) and reads present now, so a  *)
(* vehicle that stays detected is enqueued once, never zero times and      *)
(* never twice.                                                            *)
(***************************************************************************)
C26_OncePerRisingEdge ==
    [][IsTick =>
        \A lane \in Roads \X Lanes : lane \in tick_added' <=> RisingEdge(lane)]_vars


(***************************************************************************)
(* A caller that fills the same lanes through both entry points: the       *)
(* left-turn lane of North and the right-turn lane of West, with a         *)
(* destination (intersection_add_vehicle) and without one                  *)
(* (intersection_add_vehicle_by_lane).                                     *)
(***************************************************************************)
DestinationInputs == { <<ROAD_NORTH, ROAD_EAST>>, <<ROAD_WEST, ROAD_SOUTH>> }

DestinationByLaneInputs == { <<ROAD_NORTH, LANE_LEFT>>, <<ROAD_WEST, LANE_RIGHT>> }

DestinationAdd ==
    \E in \in DestinationInputs :
        /\ added < MaxDestinationVehicles
        /\ intersection_add_vehicle(in[1], in[2], added + 1)
        /\ added' = IF call'.ret THEN added + 1 ELSE added
        /\ UNCHANGED scenario
        /\ UNCHANGED <<queueVars, unitVars, simVars, halVars>>

DestinationAddByLane ==
    \E in \in DestinationByLaneInputs :
        /\ added < MaxDestinationVehicles
        /\ intersection_add_vehicle_by_lane(in[1], in[2], added + 1)
        /\ added' = IF call'.ret THEN added + 1 ELSE added
        /\ UNCHANGED scenario
        /\ UNCHANGED <<queueVars, unitVars, simVars, halVars>>

DestinationStep ==
    /\ step_count < MaxDestinationSteps
    /\ intersection_step
    /\ UNCHANGED <<added, scenario>>
    /\ UNCHANGED <<queueVars, unitVars, simVars, halVars>>

DestinationNext == DestinationAdd \/ DestinationAddByLane \/ DestinationStep

DestinationSpec == Init /\ [][DestinationNext]_vars

\* The same queues with every stored destination replaced by ROAD_NONE, as if
\* each vehicle had been added to its lane by intersection_add_vehicle_by_lane.
EraseEndRoad(rds) ==
    [r \in Roads |-> [l \in Lanes |->
        [rds[r][l] EXCEPT !.buf =
            [i \in DOMAIN rds[r][l].buf |->
                [rds[r][l].buf[i] EXCEPT !.end_road = ROAD_NONE]]]]]

\* A lane holds a vehicle with a real destination behind or ahead of one without.
MixedDestinations ==
    \E r \in Roads, l \in Lanes :
        /\ roads[r][l].count = 2
        /\ \E i, j \in 1 .. 2 :
              /\ Content(roads[r][l])[i].end_road = ROAD_NONE
              /\ Content(roads[r][l])[j].end_road \in Roads

(***************************************************************************)
(* C27: the destination road stored in a vehicle never influences the      *)
(* engine: from any reachable state, the step taken on the queues as they  *)
(* are and the step taken on the same queues with different end_road       *)
(* values (here ROAD_NONE throughout, what add_vehicle_by_lane stores)     *)
(* produce the same phase decision, the same light states, the same        *)
(* departure ids and the same queues up to end_road, so that two runs that *)
(* differ only in end_road agree at every step.                            *)
(***************************************************************************)
C27_EndRoadIgnored ==
    LET real   == intersection_step_on(roads)
        erased == intersection_step_on(EraseEndRoad(roads))
    IN  /\ real.current_phase = erased.current_phase
        /\ real.phase_steps_remaining = erased.phase_steps_remaining
        /\ real.activation = erased.activation
        /\ real.lights = erased.lights
        /\ Ids(real.departed) = Ids(erased.departed)
        /\ EraseEndRoad(real.roads) = erased.roads

\* The next step decides on, and releases from, a lane that holds vehicles
\* with and without a destination.
C27_Witness ==
    /\ MixedDestinations
    /\ StepDecides
    /\ Len(intersection_step_on(roads).departed) > 0
    /\ intersection_step_on(roads).departed[1].end_road \in Roads


(***************************************************************************)
(* C28: intersection_total_waiting returns the total number of vehicles    *)
(* waiting across all four roads and all twelve lanes, the exact sum of    *)
(* the twelve lane counts, in every reachable state.                       *)
(***************************************************************************)
C28_TotalWaitingExact ==
    intersection_total_waiting(roads) = VehiclesIn(Roads \X Lanes)


(***************************************************************************)
(* C29: between the calls on the intersection, each of the four lights     *)
(* that is RED has steps_remaining = 0, and each light that is GREEN,      *)
(* GREEN_ARROW or YELLOW has steps_remaining > 0.                          *)
(***************************************************************************)
C29_LightCounters ==
    \A r \in Roads :
        /\ lights[r].state = LIGHT_RED => lights[r].steps_remaining = 0
        /\ lights[r].state \in {LIGHT_GREEN, LIGHT_GREEN_ARROW, LIGHT_YELLOW} =>
               lights[r].steps_remaining > 0

\* North-South has been green and yellow; now South is RED again, North shows
\* the arrow and will be YELLOW after the next step.
C29_Witness ==
    /\ activation.step >= MIN_GREEN_STEPS
    /\ current_phase = PHASE_N_ARROW
    /\ lights[ROAD_NORTH].state = LIGHT_GREEN_ARROW
    /\ lights[ROAD_NORTH].steps_remaining = 1
    /\ lights[ROAD_SOUTH].state = LIGHT_RED


\* phase_steps_remaining after stage 1 of the step being taken: the duration
\* of the decision applied in this step, or the value the step started with.
AfterActivation ==
    IF activation' # activation THEN activation'.duration ELSE phase_steps_remaining

(***************************************************************************)
(* C30: every intersection_step increases step_count by exactly 1 and      *)
(* decreases phase_steps_remaining by exactly 1 from its value after the   *)
(* activation stage, never below 0; intersection_add_vehicle and           *)
(* intersection_add_vehicle_by_lane change neither; both are 0 after       *)
(* intersection_init, so step_count is the number of steps executed.       *)
(***************************************************************************)
C30_StepBookkeeping ==
    /\ [](call.op = "init" => step_count = 0 /\ phase_steps_remaining = 0)
    /\ [][/\ call'.op = "step" =>
                /\ step_count' = step_count + 1
                /\ phase_steps_remaining' = AfterActivation - 1
                /\ phase_steps_remaining' >= 0
          /\ call'.op \in {"add_vehicle", "add_vehicle_by_lane"} =>
                /\ step_count' = step_count
                /\ phase_steps_remaining' = phase_steps_remaining]_vars

\* Four steps have been counted, with vehicles added along the way, and the
\* second phase has just run out.
C30_Witness ==
    /\ call.op = "step"
    /\ step_count = 2 * MIN_GREEN_STEPS
    /\ phase_steps_remaining = 0
    /\ added > 0


(***************************************************************************)
(* C31: a successful intersection_add_vehicle appends the vehicle at the   *)
(* back of exactly one lane, the lane of its movement on road start, with  *)
(* enqueue_step equal to the current step_count, and changes nothing else: *)
(* the other eleven lanes, the four lights, current_phase,                 *)
(* phase_steps_remaining and step_count are unchanged.                     *)
(***************************************************************************)
C31_AddFrame ==
    [][(call'.op = "add_vehicle" /\ call'.ret) =>
        LET start == call'.args[1]
            end   == call'.args[2]
            lane  == LaneOf(start, end)
            new   == Vehicle(added + 1, end, RightHandTraffic(start, end), step_count)
        IN  /\ Content(roads'[start][lane]) = Append(Content(roads[start][lane]), new)
            /\ \A r \in Roads, l \in Lanes :
                  <<r, l>> # <<start, lane>> => roads'[r][l] = roads[r][l]
            /\ lights' = lights
            /\ current_phase' = current_phase
            /\ phase_steps_remaining' = phase_steps_remaining
            /\ step_count' = step_count]_vars

\* After a step, with North green and a vehicle waiting on West, a second
\* vehicle has just joined the one left in North's straight lane.
C31_Witness ==
    /\ call.op = "add_vehicle" /\ call.ret /\ call.args = <<ROAD_NORTH, ROAD_SOUTH>>
    /\ step_count > 0
    /\ traffic_light_is_green(lights[ROAD_NORTH])
    /\ roads[ROAD_NORTH][LANE_STRAIGHT].count = 2
    /\ Back(roads[ROAD_NORTH][LANE_STRAIGHT]).enqueue_step = step_count
    /\ roads[ROAD_WEST][LANE_RIGHT].count = 1


C33_DeparturesBounded ==
    Len(departed) <= MAX_DEPARTURES_PER_STEP

\* A step has released all four lanes of PHASE_NS while a fifth vehicle waits
\* in the left-turn lane of a green road.
C33_Witness ==
    /\ Len(departed) = MAX_DEPARTURES_PER_STEP
    /\ current_phase = PHASE_NS
    /\ traffic_light_is_green(lights[ROAD_NORTH])
    /\ roads[ROAD_NORTH][LANE_LEFT].count > 0


(***************************************************************************)
(* hal_stm32.c: stm32_set_light.  The call makes five HAL_GPIO_WritePin    *)
(* calls on the pins of one road: RESET for s = 0 .. 3 (writes 1 .. 4),    *)
(* then SET for the requested state (write 5).  pin_writes holds the       *)
(* writes of the call that have not taken effect yet; they take effect one *)
(* at a time, in any order, and the call has returned when none is left.   *)
(***************************************************************************)
stm32_set_light(road, state) ==
    /\ pin_writes = {}
    /\ set_call' = [road |-> road, state |-> state]
    /\ pin_writes' = 1 .. 5
    /\ UNCHANGED pins
    /\ call' = [op |-> "stm32_set_light", args |-> <<road, state>>, mv |-> MOVE_INVALID,
                ret |-> TRUE]

\* The i-th write of the call takes effect.
HAL_GPIO_WritePin(i) ==
    /\ pins' = [pins EXCEPT ![set_call.road] =
                   IF i <= 4 THEN @ \ {i - 1} ELSE @ \cup {set_call.state}]
    /\ pin_writes' = pin_writes \ {i}
    /\ UNCHANGED set_call
    /\ call' = [op |-> "HAL_GPIO_WritePin", args |-> <<i>>, mv |-> MOVE_INVALID,
                ret |-> TRUE]

\* The roads whose lights the caller drives, one on each port.
HalRoads == {ROAD_NORTH, ROAD_WEST}

HalSetLight ==
    \E road \in HalRoads, state \in LIGHT_RED .. LIGHT_GREEN_ARROW :
        /\ stm32_set_light(road, state)
        /\ UNCHANGED <<interVars, departed, added, scenario, queueVars, unitVars, simVars>>

HalWrite ==
    \E i \in pin_writes :
        /\ HAL_GPIO_WritePin(i)
        /\ UNCHANGED <<interVars, departed, added, scenario, queueVars, unitVars, simVars>>

HalSpec == Init /\ [][HalSetLight \/ HalWrite]_vars

C35_VehicleConservation ==
        /\ [](LET WaitingIds(rds) ==
                      UNION { { Content(rds[r][l])[i].id : i \in 1 .. rds[r][l].count } :
                              r \in Roads, l \in Lanes }
                  DepartedIds(dep) == { dep[i].id : i \in 1 .. Len(dep) }
              IN
              /\ WaitingIds(roads) \subseteq 1 .. added
              /\ \A r1 \in Roads, l1 \in Lanes, r2 \in Roads, l2 \in Lanes :
                   \A i \in 1 .. roads[r1][l1].count, j \in 1 .. roads[r2][l2].count :
                       Content(roads[r1][l1])[i].id = Content(roads[r2][l2])[j].id
                           => <<r1, l1, i>> = <<r2, l2, j>>
              /\ \A r \in Roads, l \in Lanes :
                   \A i \in 1 .. roads[r][l].count, j \in 1 .. roads[r][l].count :
                       i < j => Content(roads[r][l])[i].id < Content(roads[r][l])[j].id
              /\ DepartedIds(departed) \cap WaitingIds(roads) = {}
              /\ Cardinality(DepartedIds(departed)) = Len(departed))
        /\ [][LET WaitingIds(rds) ==
                      UNION { { Content(rds[r][l])[i].id : i \in 1 .. rds[r][l].count } :
                              r \in Roads, l \in Lanes }
                  DepartedIds(dep) == { dep[i].id : i \in 1 .. Len(dep) }
                  Suffix(s, t) ==
                      /\ Len(s) <= Len(t)
                      /\ \A i \in 1 .. Len(s) : s[i] = t[i + Len(t) - Len(s)]
              IN
              /\ call'.op = "step" =>
                    /\ DepartedIds(departed') \subseteq WaitingIds(roads)
                    /\ WaitingIds(roads') = WaitingIds(roads) \ DepartedIds(departed')
                    /\ \A r \in Roads, l \in Lanes :
                           Suffix(Content(roads'[r][l]), Content(roads[r][l]))
                    /\ intersection_total_waiting(roads')
                           = intersection_total_waiting(roads) - Len(departed')
                    /\ added' = added
              /\ call'.op = "add_vehicle" =>
                    IF call'.ret
                    THEN /\ added' = added + 1
                         /\ WaitingIds(roads') = WaitingIds(roads) \cup {added'}
                         /\ intersection_total_waiting(roads')
                                = intersection_total_waiting(roads) + 1
                    ELSE roads' = roads /\ added' = added]_vars

\* A step has released the older vehicle of a lane while the younger one of
\* the same lane, and a vehicle accepted before both, still wait.
C35_Witness ==
    /\ call.op = "step"
    /\ Len(departed) >= 1
    /\ \E r \in Roads, l \in Lanes :
           /\ roads[r][l].count >= 1
           /\ Content(roads[r][l])[1].id > departed[1].id
           /\ Content(roads[r][l])[1].movement = departed[1].movement
           /\ Content(roads[r][l])[1].end_road = departed[1].end_road
    /\ \E r \in Roads, l \in Lanes :
           /\ roads[r][l].count >= 1
           /\ Content(roads[r][l])[1].id < departed[1].id


(***************************************************************************)
(* C36: in every reachable state every waiting vehicle has                 *)
(* enqueue_step <= step_count, and within each lane enqueue_step does not  *)
(* decrease from front to back; hence the wait that score_lane computes    *)
(* for a lane is the plain difference step_count - front.enqueue_step,     *)
(* which is not negative, and no vehicle of the lane has waited longer     *)
(* than the front one.                                                     *)
(***************************************************************************)
C36_EnqueueStepOrdered ==
    \A r \in Roads, l \in Lanes :
        LET lane == Content(roads[r][l])
        IN  /\ \A i \in 1 .. Len(lane) : lane[i].enqueue_step <= step_count
            /\ \A i \in 1 .. Len(lane), j \in 1 .. Len(lane) :
                   i < j => lane[i].enqueue_step <= lane[j].enqueue_step
            /\ Len(lane) > 0 =>
                   /\ score_lane(roads[r], l, step_count)
                          = Len(lane) * (1 + step_count - lane[1].enqueue_step)
                   /\ \A i \in 1 .. Len(lane) :
                          step_count - lane[i].enqueue_step
                              <= step_count - lane[1].enqueue_step

\* A lane holds two vehicles added in different steps, both before the
\* current one, and a vehicle added in the current step waits as well.
C36_Witness ==
    /\ \E r \in Roads, l \in Lanes :
           /\ roads[r][l].count = 2
           /\ Content(roads[r][l])[1].enqueue_step < Content(roads[r][l])[2].enqueue_step
           /\ Content(roads[r][l])[2].enqueue_step < step_count
    /\ \E r \in Roads, l \in Lanes :
           /\ roads[r][l].count >= 1
           /\ Content(roads[r][l])[roads[r][l].count].enqueue_step = step_count


(***************************************************************************)
(* C37: in every reachable state with phase_steps_remaining > 0, every     *)
(* light of the roads of the current phase is green (GREEN for a main      *)
(* phase, GREEN_ARROW for an arrow phase) and its steps_remaining equals   *)
(* phase_steps_remaining; and at the release stage of the step taken from  *)
(* any reachable state every light of the phase then current is green, so  *)
(* the is_green guard lets every road of that phase through.               *)
(***************************************************************************)
C37_CurrentPhaseIsGreen ==
    /\ phase_steps_remaining > 0 =>
           \A r \in PhaseRoads(current_phase) :
               /\ lights[r].state = IF PHASE_INFO[current_phase].is_arrow
                                    THEN LIGHT_GREEN_ARROW ELSE LIGHT_GREEN
               /\ lights[r].steps_remaining = phase_steps_remaining
    /\ \A r \in PhaseRoads(PhaseAtRelease) :
           /\ traffic_light_is_green(LightsAtRelease[r])
           /\ LightsAtRelease[r].state = IF PHASE_INFO[PhaseAtRelease].is_arrow
                                         THEN LIGHT_GREEN_ARROW ELSE LIGHT_GREEN

\* An arrow phase follows a main phase and is in the middle of its run: its
\* light has as many steps left as the phase, the next step takes no decision.
C37_Witness ==
    /\ call.op = "step"
    /\ activation.step >= MIN_GREEN_STEPS
    /\ PHASE_INFO[current_phase].is_arrow
    /\ phase_steps_remaining = 1
    /\ \A r \in PhaseRoads(current_phase) :
           lights[r].state = LIGHT_GREEN_ARROW /\ lights[r].steps_remaining = 1
    /\ ~StepDecides


(***************************************************************************)
(* The draining caller: it adds vehicles during the first steps only and   *)
(* then goes on calling intersection_step.  The steps are cut off after as *)
(* many as (MaxDrainVehicles + 1) full-length phases can take.             *)
(***************************************************************************)
DrainAdd ==
    \E in \in AddInputs :
        /\ added < MaxDrainVehicles
        /\ step_count < LastAddStep
        /\ intersection_add_vehicle(in[1], in[2], added + 1)
        /\ added' = IF call'.ret THEN added + 1 ELSE added
        /\ UNCHANGED <<scenario, queueVars, unitVars, simVars, halVars>>

DrainStep ==
    /\ step_count < LastAddStep + (MaxDrainVehicles + 1) * MAX_GREEN_STEPS
    /\ intersection_step
    /\ UNCHANGED <<added, scenario, queueVars, unitVars, simVars, halVars>>

\* The caller keeps stepping: below the cut-off a step is eventually taken.
\* intersection_step is possible in every state and is the only operation that
\* changes step_count, so the fairness condition is stated on the counter.
DrainSpec ==
    /\ Init /\ [][DrainAdd \/ DrainStep]_vars
    /\ WF_step_count(/\ step_count < LastAddStep + (MaxDrainVehicles + 1) * MAX_GREEN_STEPS
                      /\ step_count' = (step_count + 1) % UINT32)

(***************************************************************************)
(* C38: when no vehicle is added any more and intersection_step keeps      *)
(* being called, the intersection becomes empty and stays empty; and every *)
(* step that takes a phase decision while a vehicle waits selects a phase  *)
(* that serves a non-empty lane and releases at least one vehicle.         *)
(***************************************************************************)
C38_EventuallyEmpty ==
    /\ <>[](intersection_total_waiting(roads) = 0)
    /\ [][(call'.op = "step" /\ StepDecides /\ intersection_total_waiting(roads) > 0) =>
              /\ ServesWaiting(roads, current_phase')
              /\ Len(departed') >= 1
              /\ intersection_total_waiting(roads') < intersection_total_waiting(roads)]_vars

\* The last of the vehicles has left with a left-turn arrow, after the adds ended.
C38_Witness ==
    /\ call.op = "step"
    /\ added = MaxDrainVehicles
    /\ step_count > LastAddStep
    /\ PHASE_INFO[current_phase].is_arrow
    /\ Len(departed) >= 1
    /\ intersection_total_waiting(roads) = 0


(***************************************************************************)
(* C39: in every state of a VehicleQueue reached from queue_init by        *)
(* queue_enqueue and queue_dequeue calls,                                  *)
(* tail = (head + count) mod MAX_VEHICLES_PER_LANE; so unless the queue is *)
(* full (and queue_enqueue writes nothing), the slot at tail, which is the *)
(* one queue_enqueue writes, is none of the count slots from head on that  *)
(* hold the queued vehicles.                                               *)
(***************************************************************************)
C39_TailFollowsHeadAndCount ==
    /\ q.tail = (q.head + q.count) % MAX_VEHICLES_PER_LANE
    /\ ~queue_is_full(q) =>
           q.tail \notin { (q.head + i) % MAX_VEHICLES_PER_LANE : i \in 0 .. (q.count - 1) }

\* The queue has been filled and emptied past the end of the buffer: head is
\* at the last slot, one vehicle is queued there and tail is back at slot 0.
C39_Witness ==
    /\ q.head = MAX_VEHICLES_PER_LANE - 1
    /\ q.count = 1
    /\ q.tail = 0
    /\ Len(enq_log) > MAX_VEHICLES_PER_LANE
    /\ Len(deq_log) >= MAX_VEHICLES_PER_LANE

=============================================================================
